---- MODULE Spec2Model ----
(***************************************************************************)
(* golem: the SQLite-backed data access layer (storage/db.go,              *)
(* storage/models.go), the request/history flow of main.go and the history *)
(* panel of ui/history.go, as a state machine.                             *)
(*                                                                         *)
(* Text values (URL, method, status, names, search terms) are sequences of *)
(* one-character strings so that LIKE, substring and collation can be      *)
(* computed.  Timestamps are integers (seconds of the store's clock).      *)
(***************************************************************************)
EXTENDS Integers, Sequences, FiniteSets, TLC

\* ------------------------------------------------------------------ bounds
\* Largest AUTOINCREMENT id handed out per table in a behaviour.
MaxId == 2
\* Largest value of the wall clock (CURRENT_TIMESTAMP / time.Now()).
MaxClock == 2

\* ------------------------------------------------------------ Go/SQL values
\* SQL NULL in an INTEGER column / a nil *int: 0, which AUTOINCREMENT never assigns.
NULL == 0
\* Results are sequences: a nil pointer, a nil slice and a nil map are << >>,
\* a pointer to x is <<x>>, a slice is the sequence of its elements.
Nil == << >>
Ptr(x) == <<x>>
NoError == "nil"        \* a nil error
ErrNotFound == "saved request not found"
ErrIO == "io error"     \* any failure reported by the store/driver
Empty == << >>          \* the empty string ""

VARIABLES
  preferences,      \* table preferences: set of rows [key, value, updated_at]
  collections,      \* table collections: set of rows [id, name, description, created_at]
  request_history,  \* table request_history: set of rows (see HistoryRow)
  saved_requests,   \* table saved_requests: set of rows (see SavedRow)
  seq,              \* sqlite_sequence: table name -> last AUTOINCREMENT id
  now,              \* the wall clock
  ret,              \* what the last call returned: [op, arg, res, err]
  imp,              \* the running ImportHistory call and its transaction
  mu,               \* DB.mu (sync.RWMutex): [writer, readers, waiting], sets of goroutines
  inUse,            \* goroutines holding a connection of the pool of DB.conn
  running,          \* goroutine -> [pc, op, cursor, res]: its DAL call in progress
  source,           \* request_history of an exporting store, ids left out:
                    \*   entry -> number of rows holding it
  jsonFile,         \* the file ExportHistory wrote: [kind, runs]
  target,           \* request_history of the importing store, as source
  xpc,              \* how far the export and the import of the file have come
  hp,               \* HistoryPanel.history, a slice header: [data, len]
  gor,              \* request -> the goroutine submitRequest started for it
  display,          \* responseArea, statusLabel, sizeLabel, timeLabel
  ui,               \* the UI thread inside a HistoryPanel method: [pc, list, written, term,
                    \*   dialog, calls, shown]; shown is the term of the query it assigned last
  once,             \* var once sync.Once: [done, holder, runs]
  instance,         \* var instance *DB
  getting           \* goroutine -> its call of GetDB: [pc, err, res]

storeVars == <<preferences, collections, request_history, saved_requests, seq>>
dalVars == <<preferences, collections, request_history, saved_requests, seq, now, ret>>
\* Everything but the tables, the clock and ret.
concVars == <<mu, inUse, running>>
exportVars == <<source, jsonFile, target, xpc>>
uiVars == <<hp, gor, display, ui>>
handleVars == <<once, instance, getting>>
others == <<imp, concVars, exportVars, handleVars, uiVars>>
vars == <<preferences, collections, request_history, saved_requests, seq, now, ret, imp,
          mu, inUse, running, source, jsonFile, target, xpc, hp, gor, display, ui,
          once, instance, getting>>

\* --------------------------------------------------------------- sequences
Range(s) == {s[i] : i \in 1..Len(s)}

MaxOf(S) == IF S = {} THEN 0 ELSE CHOOSE x \in S : \A y \in S : y <= x

\* LIMIT n OFFSET k of SQLite: a negative limit is no limit, a negative offset is 0.
LimitOffset(s, limit, offset) ==
  LET off == IF offset < 0 THEN 0 ELSE offset
      last == IF limit < 0 THEN Len(s)
              ELSE IF off + limit > Len(s) THEN Len(s) ELSE off + limit
  IN  SubSeq(s, off + 1, last)

\* ------------------------------------------------------------------- schema
\* A connection opened with _pragma=foreign_keys(1).
ForeignKeysEnforced == TRUE

\* initDB opens the connection with sql.Open("sqlite", dbPath): no
\* _pragma=foreign_keys(1) and no PRAGMA statement anywhere, so SQLite keeps
\* its default and does not enforce the FOREIGN KEY clauses of migrate().
ForeignKeys == FALSE

\* A RequestHistory value as the caller passes it (ID is assigned by the store).
HistoryEntry(url, method, timestamp, status, coll) ==
  [url |-> url, method |-> method, headers |-> Empty, body |-> Empty,
   timestamp |-> timestamp, response_status |-> status,
   response_body |-> Empty, response_headers |-> Empty,
   response_time_ms |-> 0, response_size |-> 0,
   is_favorite |-> FALSE, collection_id |-> coll]

\* A row of request_history: the entry's twelve columns and the id.
HistoryRow(id, e) ==
  [id |-> id, url |-> e.url, method |-> e.method, headers |-> e.headers,
   body |-> e.body, timestamp |-> e.timestamp,
   response_status |-> e.response_status, response_body |-> e.response_body,
   response_headers |-> e.response_headers,
   response_time_ms |-> e.response_time_ms, response_size |-> e.response_size,
   is_favorite |-> e.is_favorite, collection_id |-> e.collection_id]

\* The columns of a history row other than its id.
EntryOf(r) == [f \in DOMAIN r \ {"id"} |-> r[f]]

SavedEntry(name, url, method, coll) ==
  [name |-> name, url |-> url, method |-> method, headers |-> Empty,
   body |-> Empty, collection_id |-> coll]

SavedRow(id, e, created) ==
  [id |-> id, name |-> e.name, url |-> e.url, method |-> e.method,
   headers |-> e.headers, body |-> e.body, collection_id |-> e.collection_id,
   created_at |-> created]

\* INTEGER PRIMARY KEY without AUTOINCREMENT: one more than the largest id in
\* the table now, so the id of a deleted last row is handed out again.
NewIdOfRowsOnly(table, rows) == MaxOf({r.id : r \in rows}) + 1

\* INTEGER PRIMARY KEY AUTOINCREMENT: one more than the largest id ever used.
NewId(table, rows) == MaxOf({seq[table]} \cup {r.id : r \in rows}) + 1

\* Whether an insert with this collection_id passes the FOREIGN KEY check.
FkOk(coll) == ~ForeignKeys \/ coll = NULL \/ \E c \in collections : c.id = coll

\* --------------------------------------------------------------------- text
UpperCase == <<"A", "B", "C", "D", "E", "F", "G", "H", "I", "J", "K", "L", "M",
               "N", "O", "P", "Q", "R", "S", "T", "U", "V", "W", "X", "Y", "Z">>
LowerCase == <<"a", "b", "c", "d", "e", "f", "g", "h", "i", "j", "k", "l", "m",
               "n", "o", "p", "q", "r", "s", "t", "u", "v", "w", "x", "y", "z">>

\* SQLite's LIKE folds the case of ASCII letters only.
Fold(c) ==
  IF \E i \in 1..Len(UpperCase) : UpperCase[i] = c
  THEN LowerCase[CHOOSE i \in 1..Len(UpperCase) : UpperCase[i] = c]
  ELSE c

FoldText(s) == [i \in 1..Len(s) |-> Fold(s[i])]

\* LIKE comparing letters with their case (PRAGMA case_sensitive_like = ON).
LikeCharCaseSensitive(p, c) == p = "_" \/ p = c

\* One character of a LIKE pattern against one character of the text.
LikeChar(p, c) == p = "_" \/ Fold(p) = Fold(c)

RECURSIVE Like(_, _)
\* text LIKE pattern, SQLite's default: % is any run of characters, _ is any
\* one character, no ESCAPE, letters compared without case.
Like(pattern, text) ==
  IF pattern = << >> THEN text = << >>
  ELSE IF Head(pattern) = "%"
       THEN Like(Tail(pattern), text)
            \/ (text # << >> /\ Like(pattern, Tail(text)))
       ELSE text # << >>
            /\ LikeChar(Head(pattern), Head(text))
            /\ Like(Tail(pattern), Tail(text))

\* searchPattern := "%" + searchTerm + "%"
SearchPattern(searchTerm) == <<"%">> \o searchTerm \o <<"%">>

\* ------------------------------------------------------------------ queries
\* ORDER BY timestamp DESC; rows of equal timestamp come in rowid order, the
\* order of idx_request_history_timestamp.
NewestFirst(a, b) ==
  a.timestamp > b.timestamp \/ (a.timestamp = b.timestamp /\ a.id < b.id)

\* The rows of S in that order: position i holds the row with i-1 rows before it.
OrderNewestFirst(S) ==
  [i \in 1..Cardinality(S) |->
     CHOOSE x \in S : Cardinality({y \in S : NewestFirst(y, x)}) = i - 1]

\* GetRequestHistory's rows: ORDER BY timestamp DESC LIMIT ? OFFSET ?
HistoryPage(limit, offset) ==
  LimitOffset(OrderNewestFirst(request_history), limit, offset)

\* WHERE url LIKE ? OR method LIKE ? OR response_status LIKE ?
\* (the three columns are never NULL: the DAL binds Go strings)
SearchWhere(r, pattern) ==
  \/ Like(pattern, r.url)
  \/ Like(pattern, r.method)
  \/ Like(pattern, r.response_status)

\* SearchRequestHistory's rows.
SearchRows(searchTerm, limit) ==
  LimitOffset(
    OrderNewestFirst(
      {r \in request_history : SearchWhere(r, SearchPattern(searchTerm))}),
    limit, 0)

\* SQLite compares TEXT with the BINARY collation: byte by byte.
AsciiOrder == <<"%", "/", "0", "1", "2", "4", ":">> \o UpperCase \o <<"_">> \o LowerCase
Code(c) == CHOOSE i \in 1..Len(AsciiOrder) : AsciiOrder[i] = c

RECURSIVE TextLess(_, _)
TextLess(a, b) ==
  IF b = << >> THEN FALSE
  ELSE IF a = << >> THEN TRUE
  ELSE IF Head(a) = Head(b) THEN TextLess(Tail(a), Tail(b))
  ELSE Code(Head(a)) < Code(Head(b))

\* ORDER BY name; rows of equal name come in rowid order.
ByName(a, b) == TextLess(a.name, b.name) \/ (a.name = b.name /\ a.id < b.id)

OrderByName(S) ==
  [i \in 1..Cardinality(S) |->
     CHOOSE x \in S : Cardinality({y \in S : ByName(y, x)}) = i - 1]

\* The same rows without the ORDER BY: in rowid order.
SavedRowsInRowidOrder(collectionID) ==
  LET S == {r \in saved_requests : r.collection_id = collectionID}
  IN  [i \in 1..Cardinality(S) |->
         CHOOSE x \in S : Cardinality({y \in S : y.id < x.id}) = i - 1]

\* GetSavedRequests' rows: WHERE collection_id = ? / IS NULL, ORDER BY name.
SavedRowsOf(collectionID) ==
  OrderByName({r \in saved_requests : r.collection_id = collectionID})

\* ---------------------------------------------------------------- the clock
Tick ==
  /\ now < MaxClock
  /\ now' = now + 1
  /\ UNCHANGED <<preferences, collections, request_history, saved_requests, seq, ret>>

\* -------------------------------------------------------------- preferences
\* GetPreference without its sql.ErrNoRows case: a missing key is an error.
GetPreferenceNoRowsIsError(key, io) ==
  LET rows == {p \in preferences : p.key = key}
  IN  /\ ret' = [op |-> "GetPreference", arg |-> key,
                 res |-> IF io # NoError \/ rows = {}
                         THEN Ptr([key |-> "", value |-> "", updated_at |-> 0])
                         ELSE Ptr(CHOOSE p \in rows : TRUE),
                 err |-> IF io # NoError THEN io
                         ELSE IF rows = {} THEN ErrNotFound ELSE NoError]
      /\ UNCHANGED <<preferences, collections, request_history, saved_requests, seq, now>>

\* io is the driver's answer to the statement: NoError, or the error it reports.
GetPreference(key, io) ==
  LET rows == {p \in preferences : p.key = key}
  IN  /\ ret' = [op |-> "GetPreference", arg |-> key,
                 \* return nil, nil on sql.ErrNoRows; return &pref, err otherwise
                 res |-> IF io # NoError THEN Ptr([key |-> "", value |-> "", updated_at |-> 0])
                         ELSE IF rows = {} THEN Nil
                         ELSE Ptr(CHOOSE p \in rows : TRUE),
                 err |-> io]
      /\ UNCHANGED <<preferences, collections, request_history, saved_requests, seq, now>>

\* The upsert as INSERT OR IGNORE: an existing key keeps its row.
UpsertIgnoresConflict(key, value) ==
  IF \E p \in preferences : p.key = key
  THEN preferences
  ELSE preferences \cup {[key |-> key, value |-> value, updated_at |-> now]}

\* INSERT ... ON CONFLICT(key) DO UPDATE SET value = excluded.value,
\* updated_at = CURRENT_TIMESTAMP
Upsert(key, value) ==
  IF \E p \in preferences : p.key = key
  THEN {IF p.key = key THEN [p EXCEPT !.value = value, !.updated_at = now] ELSE p
          : p \in preferences}
  ELSE preferences \cup {[key |-> key, value |-> value, updated_at |-> now]}

SetPreference(key, value, io) ==
  /\ preferences' = IF io = NoError THEN Upsert(key, value) ELSE preferences
  /\ ret' = [op |-> "SetPreference", arg |-> <<key, value>>, res |-> Nil, err |-> io]
  /\ UNCHANGED <<collections, request_history, saved_requests, seq, now>>

\* prefs[key] = value for every row.
PreferenceMap == [k \in {p.key : p \in preferences} |->
                    (CHOOSE p \in preferences : p.key = k).value]

GetAllPreferences(io) ==
  /\ ret' = [op |-> "GetAllPreferences", arg |-> Nil,
             res |-> IF io = NoError THEN PreferenceMap ELSE Nil, err |-> io]
  /\ UNCHANGED <<preferences, collections, request_history, saved_requests, seq, now>>

\* ---------------------------------------------------------- request history
\* INSERT INTO request_history (...) VALUES (...): the table after the insert.
InsertHistory(req) ==
  request_history \cup {HistoryRow(NewId("request_history", request_history), req)}

\* The statement fails on a driver error or on a FOREIGN KEY violation.
SaveRequestHistory(req, io) ==
  LET id == NewId("request_history", request_history)
      err == IF io # NoError THEN io ELSE IF ~FkOk(req.collection_id) THEN ErrIO ELSE NoError
  IN  /\ id <= MaxId
      /\ request_history' = IF err = NoError THEN InsertHistory(req) ELSE request_history
      /\ seq' = IF err = NoError THEN [seq EXCEPT !["request_history"] = id] ELSE seq
      \* req.ID = int(id) only when the insert succeeded
      /\ ret' = [op |-> "SaveRequestHistory", arg |-> req,
                 res |-> IF err = NoError THEN id ELSE 0, err |-> err]
      /\ UNCHANGED <<preferences, collections, saved_requests, now>>

GetRequestHistory(limit, offset, io) ==
  /\ ret' = [op |-> "GetRequestHistory", arg |-> <<limit, offset>>,
             res |-> IF io = NoError THEN HistoryPage(limit, offset) ELSE Nil,
             err |-> io]
  /\ UNCHANGED <<preferences, collections, request_history, saved_requests, seq, now>>

SearchRequestHistory(searchTerm, limit, io) ==
  /\ ret' = [op |-> "SearchRequestHistory", arg |-> <<searchTerm, limit>>,
             res |-> IF io = NoError THEN SearchRows(searchTerm, limit) ELSE Nil,
             err |-> io]
  /\ UNCHANGED <<preferences, collections, request_history, saved_requests, seq, now>>

\* DELETE FROM request_history WHERE id = ?
DeleteRequestHistory(id, io) ==
  /\ request_history' = IF io = NoError THEN {r \in request_history : r.id # id}
                        ELSE request_history
  /\ ret' = [op |-> "DeleteRequestHistory", arg |-> id, res |-> Nil, err |-> io]
  /\ UNCHANGED <<preferences, collections, saved_requests, seq, now>>

\* DELETE FROM request_history
ClearRequestHistory(io) ==
  /\ request_history' = IF io = NoError THEN {} ELSE request_history
  /\ ret' = [op |-> "ClearRequestHistory", arg |-> Nil, res |-> Nil, err |-> io]
  /\ UNCHANGED <<preferences, collections, saved_requests, seq, now>>

\* -------------------------------------------------------------- collections
CreateCollection(name, description, io) ==
  LET id == NewId("collections", collections)
  IN  /\ id <= MaxId
      /\ collections' = IF io = NoError
                        THEN collections \cup {[id |-> id, name |-> name,
                                                description |-> description,
                                                created_at |-> now]}
                        ELSE collections
      /\ seq' = IF io = NoError THEN [seq EXCEPT !["collections"] = id] ELSE seq
      /\ ret' = [op |-> "CreateCollection", arg |-> <<name, description>>,
                 res |-> IF io = NoError
                         THEN Ptr([id |-> id, name |-> name, description |-> description,
                                   created_at |-> now])
                         ELSE Nil,
                 err |-> io]
      /\ UNCHANGED <<preferences, request_history, saved_requests, now>>

GetCollections(io) ==
  /\ ret' = [op |-> "GetCollections", arg |-> Nil,
             res |-> IF io = NoError THEN OrderByName(collections) ELSE Nil, err |-> io]
  /\ UNCHANGED <<preferences, collections, request_history, saved_requests, seq, now>>

\* request_history.collection_id ... ON DELETE SET NULL, applied only when the
\* connection enforces foreign keys.
HistoryAfterCollectionDelete(id) ==
  IF ForeignKeys
  THEN {IF r.collection_id = id THEN [r EXCEPT !.collection_id = NULL] ELSE r
          : r \in request_history}
  ELSE request_history

\* saved_requests.collection_id ... ON DELETE CASCADE, likewise.
SavedAfterCollectionDelete(id) ==
  IF ForeignKeys
  THEN {r \in saved_requests : r.collection_id # id}
  ELSE saved_requests

\* DELETE FROM collections WHERE id = ?
DeleteCollection(id, io) ==
  LET found == \E c \in collections : c.id = id
  IN  /\ collections' = IF io = NoError THEN {c \in collections : c.id # id}
                        ELSE collections
      /\ request_history' = IF io = NoError /\ found
                            THEN HistoryAfterCollectionDelete(id) ELSE request_history
      /\ saved_requests' = IF io = NoError /\ found
                           THEN SavedAfterCollectionDelete(id) ELSE saved_requests
      /\ ret' = [op |-> "DeleteCollection", arg |-> id, res |-> Nil, err |-> io]
      /\ UNCHANGED <<preferences, seq, now>>

\* ----------------------------------------------------------- saved requests
SaveRequest(req, io) ==
  LET id == NewId("saved_requests", saved_requests)
      err == IF io # NoError THEN io ELSE IF ~FkOk(req.collection_id) THEN ErrIO ELSE NoError
  IN  /\ id <= MaxId
      /\ saved_requests' = IF err = NoError
                           THEN saved_requests \cup {SavedRow(id, req, now)}
                           ELSE saved_requests
      /\ seq' = IF err = NoError THEN [seq EXCEPT !["saved_requests"] = id] ELSE seq
      /\ ret' = [op |-> "SaveRequest", arg |-> req,
                 res |-> IF err = NoError THEN id ELSE 0, err |-> err]
      /\ UNCHANGED <<preferences, collections, request_history, now>>

GetSavedRequests(collectionID, io) ==
  /\ ret' = [op |-> "GetSavedRequests", arg |-> collectionID,
             res |-> IF io = NoError THEN SavedRowsOf(collectionID) ELSE Nil, err |-> io]
  /\ UNCHANGED <<preferences, collections, request_history, saved_requests, seq, now>>

\* sql.ErrNoRows becomes the "saved request not found" error.
GetSavedRequest(id, io) ==
  LET rows == {r \in saved_requests : r.id = id}
  IN  /\ ret' = [op |-> "GetSavedRequest", arg |-> id,
                 res |-> IF io = NoError /\ rows # {} THEN Ptr(CHOOSE r \in rows : TRUE) ELSE Nil,
                 err |-> IF io # NoError THEN io
                         ELSE IF rows = {} THEN ErrNotFound ELSE NoError]
      /\ UNCHANGED <<preferences, collections, request_history, saved_requests, seq, now>>

\* DELETE FROM saved_requests WHERE id = ?
DeleteSavedRequest(id, io) ==
  /\ saved_requests' = IF io = NoError THEN {r \in saved_requests : r.id # id}
                       ELSE saved_requests
  /\ ret' = [op |-> "DeleteSavedRequest", arg |-> id, res |-> Nil, err |-> io]
  /\ UNCHANGED <<preferences, collections, request_history, seq, now>>

\* ------------------------------------------------------------ ImportHistory
MaxFileLen == 2

IOs == {NoError, ErrIO}
Ids == 1..MaxId

ErrJSON == "json: cannot unmarshal"
ErrPanic == "panic: nil pointer dereference"

\* While the transaction is open it holds the pool's only connection
\* (SetMaxOpenConns(1)): every other statement waits for Commit or Rollback.
TxOpen == imp.pc = "tx"

InitImport ==
  imp = [pc |-> "idle", file |-> << >>, i |-> 1,
         undo |-> [request_history |-> {}, seq |-> 0], exit |-> "return",
         stmtErr |-> NoError]

\* readFile, json.Unmarshal and db.Begin.  file.rows is what Unmarshal yields: a
\* []*RequestHistory, one pointer per array element, nil for a JSON null.
ImportBegin(file, readErr, beginErr) ==
  LET err == IF readErr # NoError THEN readErr
             ELSE IF ~file.wellFormed THEN ErrJSON
             ELSE beginErr
  IN  /\ ~TxOpen
      /\ imp' = [pc |-> IF err = NoError THEN "tx" ELSE "done",
                 file |-> file.rows, i |-> 1,
                 undo |-> [request_history |-> request_history,
                           seq |-> seq["request_history"]],
                 exit |-> "return", stmtErr |-> err]
      /\ ret' = IF err = NoError THEN ret
                ELSE [op |-> "ImportHistory", arg |-> file.rows, res |-> Nil, err |-> err]
      /\ UNCHANGED <<preferences, collections, request_history, saved_requests, seq, now>>

\* tx.Rollback(): the table and its sqlite_sequence entry as they were at BEGIN.
RolledBackHistory == imp.undo.request_history
RolledBackSeq == [seq EXCEPT !["request_history"] = imp.undo.seq]

\* One pass of the loop: tx.Exec of the INSERT for history[i].  A nil element
\* panics when req.URL is read and nothing is returned; an error returns; both
\* run the deferred tx.Rollback().
ImportInsert(io) ==
  LET elem == imp.file[imp.i]
      id == NewId("request_history", request_history)
      panics == elem = Nil
      err == IF panics THEN ErrPanic
             ELSE IF io # NoError THEN io
             ELSE IF ~FkOk(elem[1].collection_id) THEN ErrIO
             ELSE NoError
  IN  /\ TxOpen
      /\ imp.i <= Len(imp.file)
      /\ id <= MaxId + MaxFileLen
      /\ IF err = NoError
         THEN /\ request_history' = InsertHistory(elem[1])
              /\ seq' = [seq EXCEPT !["request_history"] = id]
              /\ imp' = [imp EXCEPT !.i = imp.i + 1]
              /\ ret' = ret
         ELSE /\ request_history' = RolledBackHistory
              /\ seq' = RolledBackSeq
              /\ imp' = [imp EXCEPT !.pc = "done", !.stmtErr = err,
                                     !.exit = IF panics THEN "panic" ELSE "return"]
              /\ ret' = IF panics THEN ret
                        ELSE [op |-> "ImportHistory", arg |-> imp.file, res |-> Nil,
                              err |-> err]
      /\ UNCHANGED <<preferences, collections, saved_requests, now>>

\* return tx.Commit().  A commit the store refuses leaves nothing committed;
\* the deferred Rollback after a Commit is a no-op (sql.ErrTxDone).
ImportCommit(io) ==
  /\ TxOpen
  /\ imp.i > Len(imp.file)
  /\ request_history' = IF io = NoError THEN request_history ELSE RolledBackHistory
  /\ seq' = IF io = NoError THEN seq ELSE RolledBackSeq
  /\ imp' = [imp EXCEPT !.pc = "done", !.stmtErr = io]
  /\ ret' = [op |-> "ImportHistory", arg |-> imp.file, res |-> Nil, err |-> io]
  /\ UNCHANGED <<preferences, collections, saved_requests, now>>


\* ------------------------------------- goroutines, the mutex and the pool
Procs == {"g1", "g2", "g3"}

\* conn.SetMaxOpenConns(1)
MaxOpenConns == 1

WriteOps == {"SaveRequestHistory", "SetPreference"}
QueryOps == {"GetRequestHistory"}
QueryRowOps == {"GetPreference"}

Idle == [pc |-> "idle", op |-> "", cursor |-> << >>, res |-> << >>]

InitConc ==
  /\ mu = [writer |-> {}, readers |-> {}, waiting |-> {}]
  /\ inUse = {}
  /\ running = [p \in Procs |-> Idle]

\* sync.RWMutex: Lock() announces itself (from then on RLock() blocks) and
\* returns once no reader and no writer is left; RLock() returns when there is
\* no writer, active or announced.
CanLock == mu.writer = {} /\ mu.readers = {}
CanRLock == mu.writer = {} /\ mu.waiting = {}

\* database/sql hands out a connection when fewer than MaxOpenConns are in
\* use; a caller waits otherwise.
ConnAlwaysFree == TRUE
ConnFree == Cardinality(inUse) < MaxOpenConns

At(p, pc) == running[p].pc = pc
Goto(p, pc) == [running EXCEPT ![p].pc = pc]
\* The goroutines parked in mu.RLock().
Parked == {q \in Procs : At(q, "rlock")}

\* A goroutine calls db.Exec / db.Begin: mu.Lock() is entered.
ConcLock(p, op) ==
  /\ At(p, "idle")
  /\ op = "ImportHistory" => (~TxOpen /\ \A q \in Procs : running[q].op # op)
  /\ running' = [running EXCEPT ![p] = [Idle EXCEPT !.pc = "lock", !.op = op]]
  /\ mu' = [mu EXCEPT !.waiting = @ \cup {p}]
  /\ UNCHANGED <<dalVars, imp, inUse>>

\* mu.Lock() returns.
ConcLocked(p) ==
  /\ At(p, "lock")
  /\ CanLock
  /\ mu' = [mu EXCEPT !.writer = {p}, !.waiting = @ \ {p}]
  /\ running' = Goto(p, "conn")
  /\ UNCHANGED <<dalVars, imp, inUse>>

\* db.conn.Exec / Query / QueryRow / Begin obtains the connection.
ConcConn(p) ==
  /\ At(p, "conn")
  /\ ConnFree
  /\ inUse' = inUse \cup {p}
  /\ running' = Goto(p, "stmt")
  /\ UNCHANGED <<dalVars, imp, mu>>

\* db.conn.Exec runs the statement and gives the connection back.
ConcExec(p) ==
  /\ At(p, "stmt")
  /\ running[p].op \in WriteOps
  /\ IF running[p].op = "SaveRequestHistory"
     THEN SaveRequestHistory(HistoryEntry(<<"a">>, <<"G", "E", "T">>, now, <<"2", "0", "0">>, NULL),
                             NoError)
     ELSE SetPreference("last_url", "v1", NoError)
  /\ inUse' = inUse \ {p}
  /\ running' = Goto(p, "unlock")
  /\ UNCHANGED <<imp, mu>>

\* db.conn.Begin in ImportHistory: BEGIN, the transaction keeps the connection.
ConcBegin(p, file, io) ==
  /\ At(p, "stmt")
  /\ running[p].op = "ImportHistory"
  /\ ImportBegin(file, NoError, io)
  /\ inUse' = IF io = NoError THEN inUse ELSE inUse \ {p}
  /\ running' = Goto(p, "unlock")
  /\ UNCHANGED mu

\* defer db.mu.Unlock() of db.Exec and db.Begin.  Unlock() hands the lock to
\* every parked reader before another writer can take it.
ConcUnlock(p) ==
  /\ At(p, "unlock")
  /\ mu' = [mu EXCEPT !.writer = {}, !.readers = Parked]
  /\ running' = [q \in Procs |->
                   IF q = p
                   THEN IF TxOpen /\ running[p].op = "ImportHistory"
                        THEN [running[p] EXCEPT !.pc = "tx"] ELSE Idle
                   ELSE IF q \in Parked THEN [running[q] EXCEPT !.pc = "conn"]
                   ELSE running[q]]
  /\ UNCHANGED <<dalVars, imp, inUse>>

\* The import's INSERT and COMMIT issued through db.Exec: each asks the pool
\* for a connection, which the transaction keeps.
ConcTxThroughPool(p, io) ==
  /\ At(p, "tx")
  /\ ConnFree
  /\ ImportInsert(io) \/ ImportCommit(io)
  /\ inUse' = IF imp'.pc = "done" THEN inUse \ {p} ELSE inUse
  /\ running' = IF imp'.pc = "done" THEN [running EXCEPT ![p] = Idle] ELSE running
  /\ UNCHANGED mu

\* tx.Exec, tx.Commit and the deferred tx.Rollback: no mutex; the connection
\* goes back to the pool when the transaction ends.
ConcTx(p, io) ==
  /\ At(p, "tx")
  /\ ImportInsert(io) \/ ImportCommit(io)
  /\ inUse' = IF imp'.pc = "done" THEN inUse \ {p} ELSE inUse
  /\ running' = IF imp'.pc = "done" THEN [running EXCEPT ![p] = Idle] ELSE running
  /\ UNCHANGED mu

\* A goroutine calls db.Query / db.QueryRow: mu.RLock() returns.
ConcRLock(p, op) ==
  /\ At(p, "idle")
  /\ CanRLock
  /\ mu' = [mu EXCEPT !.readers = @ \cup {p}]
  /\ running' = [running EXCEPT ![p] = [Idle EXCEPT !.pc = "conn", !.op = op]]
  /\ UNCHANGED <<dalVars, imp, inUse>>

\* The same call while a writer holds or awaits the lock: mu.RLock() parks
\* the goroutine.
ConcRPark(p, op) ==
  /\ At(p, "idle")
  /\ ~CanRLock
  /\ running' = [running EXCEPT ![p] = [Idle EXCEPT !.pc = "rlock", !.op = op]]
  /\ UNCHANGED <<dalVars, imp, mu, inUse>>

\* db.conn.Query / QueryRow runs the SELECT; the *sql.Rows keeps the connection.
ConcQuery(p) ==
  /\ At(p, "stmt")
  /\ running[p].op \in QueryOps \cup QueryRowOps
  /\ running' = [running EXCEPT ![p].pc = "runlock",
                   ![p].cursor = IF running[p].op = "GetRequestHistory"
                                 THEN HistoryPage(100, 0)
                                 ELSE IF \E r \in preferences : r.key = "last_url"
                                 THEN <<CHOOSE r \in preferences : r.key = "last_url">>
                                 ELSE << >>]
  /\ UNCHANGED <<dalVars, imp, mu, inUse>>

\* defer db.mu.RUnlock() of db.Query and db.QueryRow.
ConcRUnlock(p) ==
  /\ At(p, "runlock")
  /\ mu' = [mu EXCEPT !.readers = @ \ {p}]
  /\ running' = Goto(p, "rows")
  /\ UNCHANGED <<dalVars, imp, inUse>>

\* for rows.Next() { rows.Scan(...); history = append(history, &req) }
ConcNext(p) ==
  /\ At(p, "rows")
  /\ running[p].cursor # << >>
  /\ running' = [running EXCEPT ![p].cursor = Tail(@),
                                ![p].res = Append(@, Head(running[p].cursor))]
  /\ UNCHANGED <<dalVars, imp, mu, inUse>>

\* rows.Next() = false and the deferred rows.Close() (or the end of Row.Scan):
\* the connection goes back to the pool and the call returns.
ConcClose(p) ==
  /\ At(p, "rows")
  /\ running[p].cursor = << >>
  /\ inUse' = inUse \ {p}
  /\ ret' = [op |-> running[p].op, arg |-> Nil, res |-> running[p].res, err |-> NoError]
  /\ running' = [running EXCEPT ![p] = Idle]
  /\ UNCHANGED <<storeVars, now, imp, mu>>

\* ------------------------------------------------------ GetDB and sync.Once
\* db := &DB{conn: conn}
TheDB == [conn |-> "golem.db"]

\* The steps of initDB that can fail, in their order.
InitSteps == <<"getDBPath", "os.MkdirAll", "sql.Open", "migrate">>
ErrInit == "failed to open database"

NotGetting == [pc |-> "idle", err |-> NoError, res |-> << >>]

\* The process before its first call of GetDB.
NotOpened ==
  /\ once = [done |-> FALSE, holder |-> {}, runs |-> 0]
  /\ instance = Nil
  /\ getting = [p \in Procs |-> NotGetting]

\* The process once main() got its handle from GetDB.
Opened ==
  /\ once = [done |-> TRUE, holder |-> {}, runs |-> 1]
  /\ instance = Ptr(TheDB)
  /\ getting = [p \in Procs |-> NotGetting]

\* GetDB is entered: var err error
GetDBCall(p) ==
  /\ getting[p].pc \in {"idle", "returned"}
  /\ getting' = [getting EXCEPT ![p] = [pc |-> "once", err |-> NoError, res |-> << >>]]
  /\ UNCHANGED <<once, instance>>

\* once.Do(f) when f already ran: returns without calling f.
OnceSkip(p) ==
  /\ getting[p].pc = "once"
  /\ once.done
  /\ getting' = [getting EXCEPT ![p].pc = "return"]
  /\ UNCHANGED <<once, instance>>

\* once.Do(f) for the first caller: f starts, every other caller waits.
OnceEnter(p) ==
  /\ getting[p].pc = "once"
  /\ ~once.done
  /\ once.holder = {}
  /\ once' = [once EXCEPT !.holder = {p}, !.runs = @ + 1]
  /\ getting' = [getting EXCEPT ![p].pc = InitSteps[1]]
  /\ UNCHANGED instance

\* The value io of one step of initDB: on an error initDB returns nil and the
\* error, after the last step it returns db and nil; then
\* instance, err = initDB() is assigned and once.Do returns.
InitDBStep(p, io) ==
  LET i == CHOOSE k \in 1..Len(InitSteps) : InitSteps[k] = getting[p].pc
      last == i = Len(InitSteps)
  IN  /\ getting[p].pc \in Range(InitSteps)
      /\ IF io = NoError /\ ~last
         THEN /\ getting' = [getting EXCEPT ![p].pc = InitSteps[i + 1]]
              /\ UNCHANGED <<once, instance>>
         ELSE /\ instance' = IF io = NoError THEN Ptr(TheDB) ELSE Nil
              /\ getting' = [getting EXCEPT ![p].err = io, ![p].pc = "return"]
              /\ once' = [once EXCEPT !.done = TRUE, !.holder = {}]

\* return instance, err
GetDBReturn(p) ==
  /\ getting[p].pc = "return"
  /\ getting' = [getting EXCEPT ![p].pc = "returned",
                                ![p].res = [handle |-> instance, err |-> getting[p].err]]
  /\ UNCHANGED <<once, instance>>

\* ------------------------------------------- ExportHistory and its file
\* db.GetRequestHistory(10000, 0)
ExportLimit == 10000

\* A byte that is not valid UTF-8, as an HTTP body or a TEXT column can hold
\* it, and U+FFFD, which encoding/json writes in its place.
InvalidByte == "\\xff"
ReplacementChar == "\\ufffd"

TextFields == {"url", "method", "headers", "body", "response_status",
               "response_body", "response_headers"}
\* The fields tagged omitempty: left out when "" or a nil pointer.
OmitEmptyFields == {"headers", "body", "response_status", "response_body",
                    "response_headers", "collection_id"}

\* encoding/json on a string: quotes around it, invalid UTF-8 coerced to
\* U+FFFD, and ", <, >, & written as escapes.
EscapeChar(c) ==
  IF c = InvalidByte THEN ReplacementChar
  ELSE IF c \in {"\"", "<", ">", "&"} THEN <<"\\", c>>
  ELSE c
JSONString(text) == <<"\"">> \o [i \in 1..Len(text) |-> EscapeChar(text[i])] \o <<"\"">>

UnescapeChar(c) == IF c \in Seq({"\\", "\"", "<", ">", "&"}) THEN c[2] ELSE c
ParseJSONString(js) == [i \in 1..(Len(js) - 2) |-> UnescapeChar(js[i + 1])]

\* One element of the array: the struct's fields by their json names.  The
\* "id" member is written too; ImportHistory never reads it.
MarshalEntry(e) ==
  [f \in {g \in DOMAIN e : g \in OmitEmptyFields =>
                             IF g = "collection_id" THEN e[g] # NULL ELSE e[g] # Empty} |->
     IF f \in TextFields THEN JSONString(e[f]) ELSE e[f]]

\* json.Unmarshal into a fresh RequestHistory: absent members keep the zero value.
UnmarshalEntryWithoutCollection(obj) ==
  [f \in {"url", "method", "headers", "body", "timestamp", "response_status",
          "response_body", "response_headers", "response_time_ms",
          "response_size", "is_favorite", "collection_id"} |->
     IF f = "collection_id" THEN NULL
     ELSE IF f \in DOMAIN obj
     THEN IF f \in TextFields THEN ParseJSONString(obj[f]) ELSE obj[f]
     ELSE IF f \in TextFields THEN Empty
     ELSE IF f = "is_favorite" THEN FALSE
     ELSE 0]

UnmarshalEntry(obj) ==
  [f \in {"url", "method", "headers", "body", "timestamp", "response_status",
          "response_body", "response_headers", "response_time_ms",
          "response_size", "is_favorite", "collection_id"} |->
     IF f \in DOMAIN obj
     THEN IF f \in TextFields THEN ParseJSONString(obj[f]) ELSE obj[f]
     ELSE IF f \in TextFields THEN Empty
     ELSE IF f = "is_favorite" THEN FALSE
     ELSE IF f = "collection_id" THEN NULL
     ELSE 0]

\* The entries of a store, newest first (ORDER BY timestamp DESC).
RECURSIVE SourceNewestFirst(_)
SourceNewestFirst(S) ==
  IF S = {} THEN << >>
  ELSE LET e == CHOOSE x \in S : \A y \in S : y.timestamp <= x.timestamp
       IN  <<e>> \o SourceNewestFirst(S \ {e})

\* LIMIT k over rows given as runs of equal rows.
RECURSIVE LimitRuns(_, _)
LimitRuns(runs, k) ==
  IF runs = << >> \/ k <= 0 THEN << >>
  ELSE LET r == Head(runs)
           n == IF r.n < k THEN r.n ELSE k
       IN  <<[r EXCEPT !.n = n]>> \o LimitRuns(Tail(runs), k - n)

\* GetRequestHistory(limit, 0) on the exporting store.
SourcePage(limit) ==
  LET es == SourceNewestFirst({e \in DOMAIN source : source[e] > 0})
  IN  LimitRuns([i \in 1..Len(es) |-> [entry |-> es[i], n |-> source[es[i]]]], limit)

\* json.MarshalIndent(history, "", "  "): a nil slice is written as null.
MarshalIndent(history) ==
  IF history = << >> THEN [kind |-> "null", runs |-> << >>]
  ELSE [kind |-> "array",
        runs |-> [i \in 1..Len(history) |->
                    [json |-> MarshalEntry(history[i].entry), n |-> history[i].n]]]

\* json.Unmarshal(data, &history)
Unmarshal(file) ==
  [i \in 1..Len(file.runs) |->
     [entry |-> UnmarshalEntry(file.runs[i].json), n |-> file.runs[i].n]]

RECURSIVE RowCount(_, _)
RowCount(runs, e) ==
  IF runs = << >> THEN 0
  ELSE (IF Head(runs).entry = e THEN Head(runs).n ELSE 0) + RowCount(Tail(runs), e)

\* The table that holds exactly the rows of the runs.
TableOf(runs) == [e \in {runs[i].entry : i \in 1..Len(runs)} |-> RowCount(runs, e)]

NoRows == [e \in {} |-> 0]

InitExport ==
  /\ source = NoRows
  /\ jsonFile = [kind |-> "none", runs |-> << >>]
  /\ target = NoRows
  /\ xpc = "start"

\* ExportHistory(filepath); io is the answer of the query and of writeFile.
ExportHistory(io) ==
  /\ xpc = "start"
  /\ jsonFile' = IF io = NoError THEN MarshalIndent(SourcePage(ExportLimit)) ELSE jsonFile
  /\ xpc' = IF io = NoError THEN "exported" ELSE "export failed"
  /\ UNCHANGED <<source, target>>

\* ImportHistory(filepath) of that file into the importing store, as one
\* call; io is the answer of the inserts and the commit.
ImportHistory(io) ==
  /\ xpc = "exported"
  /\ target' = IF io = NoError THEN TableOf(Unmarshal(jsonFile)) ELSE target
  /\ xpc' = IF io = NoError THEN "imported" ELSE "import failed"
  /\ UNCHANGED <<source, jsonFile>>

\* ------------------------------------- main.go: executing a request
MaxRequests == 2
Requests == 1..MaxRequests
\* Calls of loadHistory, searchHistory and clearHistory in a behaviour.
MaxUiCalls == 1

\* time.Duration counts nanoseconds; Milliseconds() is the integer quotient.
NsPerMs == 1000000
Milliseconds(d) == d \div NsPerMs

\* GetRequestHistory(100, 0), SearchRequestHistory(searchTerm, 100), hp.history[:100]
HistoryLimit == 100

\* The sentinel status of a failed execution.
StatusError == <<"E", "r", "r", "o", "r">>

\* http.NewRequest fails on a URL that does not parse; ":" has no scheme.
ValidURL(url) == url = << >> \/ Head(url) # ":"

\* &http.Client{Timeout: 30 * time.Second}: no CheckRedirect, so the default
\* policy applies, which gives up once 10 requests were sent.
MaxRedirects == 10
RedirectStatuses == {<<"3", "0", "1">>, <<"3", "0", "2">>, <<"3", "0", "3">>,
                     <<"3", "0", "7">>, <<"3", "0", "8">>}
ErrInvalidRequest == "missing protocol scheme"
ErrRedirects == "stopped after 10 redirects"
ErrReadBody == "unexpected EOF"

\* A client that hands back every answer as it is (CheckRedirect returning
\* http.ErrUseLastResponse).
ShouldRedirectNever(hop) == FALSE

\* redirectBehavior: the answer sends the client on to its Location.
ShouldRedirect(hop) == hop.status \in RedirectStatuses /\ hop.location

\* What a hop leaves in the hands of the caller of client.Do.
Answer(hop, kind, sent) ==
  [kind |-> kind, status |-> hop.status, body |-> hop.body, headers |-> hop.headers,
   elapsed |-> hop.elapsed, readErr |-> hop.readErr, sent |-> sent]

RECURSIVE ClientDo(_, _)
\* client.Do(req) after sent requests: hops[1] is what the next request meets,
\* a transport failure or an answer; hops[2] what the request to its
\* Location meets, and so on.
ClientDo(hops, sent) ==
  LET hop == Head(hops)
  IN  IF hop.kind # "http" THEN Answer(hop, hop.kind, sent + 1)
      ELSE IF ~ShouldRedirect(hop) THEN Answer(hop, "http", sent + 1)
      ELSE IF sent + 1 >= MaxRedirects THEN Answer(hop, ErrRedirects, sent + 1)
      ELSE ClientDo(Tail(hops), sent + 1)

\* http.NewRequest, client.Do and io.ReadAll(resp.Body) in turn.
Outcome(method, url, hops) ==
  IF ~ValidURL(url) THEN Answer(Head(hops), ErrInvalidRequest, 0)
  ELSE LET d == ClientDo(hops, 0)
       IN  IF d.kind = "http" /\ d.readErr THEN [d EXCEPT !.kind = ErrReadBody] ELSE d

\* executeRequest(method, url); net is what the network does with the
\* request: it cannot be built or sent, the body cannot be read, or a server
\* answers with a status, headers and a body after net.elapsed nanoseconds.
executeRequest(method, url, net) ==
  IF net.kind # "http" THEN [response |-> Nil, err |-> net.kind]
  ELSE [response |-> Ptr([Body |-> net.body, Headers |-> net.headers,
                          Status |-> net.status, Size |-> Len(net.body),
                          ResponseTime |-> net.elapsed]),
        err |-> NoError]

\* json.Marshal(response.Headers): the text as a sequence of tokens, a key or
\* a value being one token.
MarshalHeader(h) ==
  <<"{", "\"Key\"", ":", "\"", h.Key, "\"", ",", "\"Value\"", ":", "\"", h.Value, "\"", "}">>
RECURSIVE MarshalHeaderList(_)
MarshalHeaderList(hs) ==
  IF hs = << >> THEN << >>
  ELSE MarshalHeader(Head(hs))
       \o (IF Tail(hs) = << >> THEN << >> ELSE <<",">> \o MarshalHeaderList(Tail(hs)))
MarshalHeaders(hs) == <<"[">> \o MarshalHeaderList(hs) \o <<"]">>

\* The entry with the response fields of a failed execution too.
HistoryEntryCopiesAlways(method, url, res, t) ==
  [HistoryEntry(url, method, t, StatusError, NULL)
     EXCEPT !.response_body = <<"E", "r", "r", "o", "r">>]

\* historyEntry as the goroutine fills it before AddToHistory.
BuildHistoryEntry(method, url, res, t) ==
  IF res.err # NoError
  THEN HistoryEntry(url, method, t, StatusError, NULL)
  ELSE LET response == res.response[1]
       IN  [HistoryEntry(url, method, t, response.Status, NULL)
              EXCEPT !.response_body = response.Body,
                     !.response_time_ms = Milliseconds(response.ResponseTime),
                     !.response_size = response.Size,
                     !.response_headers = MarshalHeaders(response.Headers)]

\* The four widgets: a format and its argument each.
Shown(response, status, size, time) ==
  [response |-> response, status |-> status, size |-> size, time |-> time]
ShowNothing ==
  Shown([fmt |-> "Response will appear here...", arg |-> Empty],
        [fmt |-> "Status: -", arg |-> Empty],
        [fmt |-> "Size: -", arg |-> 0], [fmt |-> "Time: -", arg |-> 0])
ShowNoURL ==
  Shown([fmt |-> "Error: Please enter a URL", arg |-> Empty],
        [fmt |-> "Status: Error", arg |-> Empty],
        [fmt |-> "Size: -", arg |-> 0], [fmt |-> "Time: -", arg |-> 0])
ShowLoading ==
  Shown([fmt |-> "Loading...", arg |-> Empty], [fmt |-> "Status: Loading...", arg |-> Empty],
        [fmt |-> "Size: -", arg |-> 0], [fmt |-> "Time: -", arg |-> 0])
ShowResult(res) ==
  IF res.err # NoError
  THEN Shown([fmt |-> "Error: %v", arg |-> <<res.err>>], [fmt |-> "Status: Error", arg |-> Empty],
             [fmt |-> "Size: -", arg |-> 0], [fmt |-> "Time: -", arg |-> 0])
  ELSE LET response == res.response[1]
       IN  Shown([fmt |-> "%s", arg |-> response.Body],
                 [fmt |-> "Status: %s", arg |-> response.Status],
                 [fmt |-> "Size: %d bytes", arg |-> response.Size],
                 [fmt |-> "Time: %.2f ms", arg |-> Milliseconds(response.ResponseTime)])

\* ------------------------------------------------ ui/history.go: the panel
\* hp.history is read and assigned by the request goroutines and by the UI
\* thread without synchronisation.  An assignment stores the words of the
\* slice header one by one, in either order; a read takes the header as it is.
Garbage == HistoryRow(-1, HistoryEntry(Empty, Empty, 0, Empty, NULL))

\* The elements a reader of the header gets: those behind data up to len.
View(h) ==
  IF h.len <= Len(h.data) THEN SubSeq(h.data, 1, h.len)
  ELSE h.data \o [i \in 1..(h.len - Len(h.data)) |-> Garbage]

HeaderParts == {"data", "len"}
StorePart(h, list, part) ==
  IF part = "data" THEN [h EXCEPT !.data = list] ELSE [h EXCEPT !.len = Len(list)]

NoGoroutine ==
  [pc |-> "none", url |-> Empty, method |-> Empty,
   res |-> [response |-> Nil, err |-> NoError],
   entry |-> HistoryEntry(Empty, Empty, 0, Empty, NULL), id |-> 0,
   list |-> << >>, written |-> {}]

UIIdle ==
  [pc |-> "idle", list |-> << >>, written |-> {}, term |-> Empty, dialog |-> NoError,
   calls |-> 0, shown |-> Empty]

InitUI ==
  /\ hp = [data |-> << >>, len |-> 0]
  /\ gor = [r \in Requests |-> NoGoroutine]
  /\ display = ShowNothing
  /\ ui = UIIdle

\* submitRequest, on the UI thread: an empty URL is refused, otherwise the
\* request goes to a new goroutine.
SubmitRequest(url, method) ==
  /\ ui.pc = "idle"
  /\ IF url = Empty
     THEN /\ display' = ShowNoURL
          /\ UNCHANGED gor
     ELSE /\ \E r \in Requests :
               /\ gor[r].pc = "none"
               /\ \A q \in Requests : q < r => gor[q].pc # "none"
               /\ gor' = [gor EXCEPT ![r] = [NoGoroutine EXCEPT !.pc = "exec", !.url = url,
                                                              !.method = method]]
          /\ display' = ShowLoading
  /\ UNCHANGED <<dalVars, hp, ui>>

\* The goroutine up to the call of AddToHistory: executeRequest, the history
\* entry, the widgets.
GorExecute(r, net) ==
  LET res == executeRequest(gor[r].method, gor[r].url, net)
  IN  /\ gor[r].pc = "exec"
      /\ gor' = [gor EXCEPT ![r].pc = "save", ![r].res = res,
                   ![r].entry = BuildHistoryEntry(gor[r].method, gor[r].url, res, now)]
      /\ display' = ShowResult(res)
      /\ UNCHANGED <<dalVars, hp, ui>>

\* AddToHistory returns after a failed save and goes on to the list otherwise.
AfterSaveAlways(err) == "read"
AfterSave(err) == IF err # NoError THEN "done" ELSE "read"

\* AddToHistory: hp.db.SaveRequestHistory(req); a failure is printed.
GorSave(r, io) ==
  /\ gor[r].pc = "save"
  /\ SaveRequestHistory(gor[r].entry, io)
  /\ gor' = [gor EXCEPT ![r].pc = AfterSave(ret'.err), ![r].id = ret'.res]
  /\ UNCHANGED <<hp, display, ui>>

\* The list that ignores the new entry.
PrependNothing(req, history) == history
\* append([]*storage.RequestHistory{req}, hp.history...)
Prepend(req, history) == <<req>> \o history

\* AddToHistory: hp.history is read and the new list built.
GorRead(r) ==
  /\ gor[r].pc = "read"
  /\ gor' = [gor EXCEPT ![r].pc = "write", ![r].written = {},
               ![r].list = Prepend(HistoryRow(gor[r].id, gor[r].entry), View(hp))]
  /\ UNCHANGED <<dalVars, hp, display, ui>>

\* AddToHistory: hp.history = ..., one word of the header.
GorWrite(r, part) ==
  /\ gor[r].pc \in {"write", "cut"}
  /\ part \notin gor[r].written
  /\ hp' = StorePart(hp, gor[r].list, part)
  /\ gor' = [gor EXCEPT ![r].written = @ \cup {part},
               ![r].pc = IF gor[r].written \cup {part} # HeaderParts THEN @
                         ELSE IF @ = "write" THEN "limit" ELSE "done"]
  /\ UNCHANGED <<dalVars, display, ui>>

\* AddToHistory: if len(hp.history) > 100 { hp.history = hp.history[:100] }
GorLimit(r) ==
  /\ gor[r].pc = "limit"
  /\ gor' = IF hp.len > HistoryLimit
            THEN [gor EXCEPT ![r].pc = "cut", ![r].written = {},
                             ![r].list = SubSeq(View(hp), 1, HistoryLimit)]
            ELSE [gor EXCEPT ![r].pc = "done"]
  /\ UNCHANGED <<dalVars, hp, display, ui>>

\* loadHistory up to the assignment (Refresh, and searchHistory("")).
UILoad(io) ==
  /\ ui.pc = "idle"
  /\ ui.calls < MaxUiCalls
  /\ GetRequestHistory(HistoryLimit, 0, io)
  /\ ui' = IF io # NoError THEN [ui EXCEPT !.dialog = io, !.calls = @ + 1]
           ELSE [ui EXCEPT !.pc = "assign", !.list = ret'.res, !.written = {},
                           !.calls = @ + 1, !.shown = Empty]
  /\ UNCHANGED <<hp, gor, display>>

\* searchHistory(searchTerm) up to the assignment.
UISearch(searchTerm, io) ==
  /\ ui.pc = "idle"
  /\ ui.calls < MaxUiCalls
  /\ IF searchTerm = Empty
     THEN GetRequestHistory(HistoryLimit, 0, io)
     ELSE SearchRequestHistory(searchTerm, HistoryLimit, io)
  /\ ui' = IF io # NoError THEN [ui EXCEPT !.dialog = io, !.term = searchTerm, !.calls = @ + 1]
           ELSE [ui EXCEPT !.pc = "assign", !.list = ret'.res, !.written = {},
                           !.term = searchTerm, !.calls = @ + 1, !.shown = searchTerm]
  /\ UNCHANGED <<hp, gor, display>>

\* clearHistory up to the assignment of the empty list.
UIClear(io) ==
  /\ ui.pc = "idle"
  /\ ui.calls < MaxUiCalls
  /\ ClearRequestHistory(io)
  /\ ui' = IF io # NoError THEN [ui EXCEPT !.dialog = io, !.calls = @ + 1]
           ELSE [ui EXCEPT !.pc = "assign", !.list = << >>, !.written = {},
                           !.calls = @ + 1, !.shown = Empty]
  /\ UNCHANGED <<hp, gor, display>>

\* hp.history = history, one word of the header; then hp.historyList.Refresh().
UIAssign(part) ==
  /\ ui.pc = "assign"
  /\ part \notin ui.written
  /\ hp' = StorePart(hp, ui.list, part)
  /\ ui' = [ui EXCEPT !.written = @ \cup {part},
                      !.pc = IF ui.written \cup {part} = HeaderParts THEN "idle" ELSE @]
  /\ UNCHANGED <<dalVars, gor, display>>

\* ------------------------------------------------- the whole DAL, sequential
CollRefs == {NULL} \cup Ids

DalKeys == {"last_url"}
DalValues == {"v1"}
DalNames == {<<"a">>}
DalUrl == <<"a">>
DalMethod == <<"G", "E", "T">>
DalStatus == <<"2", "0", "0">>
DalTerms == {Empty, <<"x">>}
DalLimits == {1, 100}

\* The collection references a caller can pick: none, or a listed collection.
ExistingCollRefs == {NULL} \cup {c.id : c \in collections}

InitStore ==
  /\ preferences = {}
  /\ collections = {}
  /\ request_history = {}
  /\ saved_requests = {}
  /\ seq = [t \in {"collections", "request_history", "saved_requests"} |-> 0]
  /\ now = 0
  /\ ret = [op |-> "init", arg |-> Nil, res |-> Nil, err |-> NoError]

Init == InitStore /\ InitImport /\ InitConc /\ InitExport /\ InitUI /\ Opened

Next ==
  \/ \E k \in DalKeys, io \in IOs : GetPreference(k, io) /\ UNCHANGED others
  \/ \E k \in DalKeys, v \in DalValues : SetPreference(k, v, NoError) /\ UNCHANGED others
  \/ GetAllPreferences(NoError) /\ UNCHANGED others
  \/ \E c \in ExistingCollRefs, io \in IOs :
       SaveRequestHistory(HistoryEntry(DalUrl, DalMethod, now, DalStatus, c), io) /\ UNCHANGED others
  \/ \E l \in DalLimits : GetRequestHistory(l, 0, NoError) /\ UNCHANGED others
  \/ \E t \in DalTerms, io \in IOs : SearchRequestHistory(t, 100, io) /\ UNCHANGED others
  \/ \E id \in Ids : DeleteRequestHistory(id, NoError) /\ UNCHANGED others
  \/ ClearRequestHistory(NoError) /\ UNCHANGED others
  \/ \E n \in DalNames : CreateCollection(n, Empty, NoError) /\ UNCHANGED others
  \/ GetCollections(NoError) /\ UNCHANGED others
  \/ \E id \in Ids, io \in IOs : DeleteCollection(id, io) /\ UNCHANGED others
  \/ \E n \in DalNames, c \in ExistingCollRefs :
       SaveRequest(SavedEntry(n, DalUrl, DalMethod, c), NoError) /\ UNCHANGED others
  \/ \E c \in CollRefs : GetSavedRequests(c, NoError) /\ UNCHANGED others
  \/ \E id \in Ids, io \in IOs : GetSavedRequest(id, io) /\ UNCHANGED others
  \/ \E id \in Ids : DeleteSavedRequest(id, NoError) /\ UNCHANGED others

Spec == Init /\ [][Next]_vars

\* -------------------------------------------------------- preferences only
PrefKeys == {"last_url", "last_method"}
PrefValues == {"v1", "v2"}

NextPrefs ==
  \/ Tick /\ UNCHANGED others
  \/ \E k \in PrefKeys, v \in PrefValues, io \in IOs : SetPreference(k, v, io) /\ UNCHANGED others
  \/ \E k \in PrefKeys, io \in IOs : GetPreference(k, io) /\ UNCHANGED others
  \/ \E io \in IOs : GetAllPreferences(io) /\ UNCHANGED others

SpecPrefs == Init /\ [][NextPrefs]_vars

\* ------------------------------------------------- history list and search
SearchUrls == {<<"a", "B">>, <<"_">>}
SearchMethods == {<<"G", "E", "T">>}
SearchStatuses == {<<"2", "0", "0">>, <<"E", "r", "r", "o", "r">>}
SearchTerms == {Empty, <<"a", "b">>, <<"a", "B">>, <<"_">>, <<"%">>, <<"e">>,
                <<"2">>, <<"2", "%", "0">>, <<"z">>}
SearchLimits == {1, 2, 100}

NextSearch ==
  \/ \E u \in SearchUrls, m \in SearchMethods, st \in SearchStatuses, t \in 0..MaxClock :
       SaveRequestHistory(HistoryEntry(u, m, t, st, NULL), NoError) /\ UNCHANGED others
  \/ \E t \in SearchTerms, l \in SearchLimits : SearchRequestHistory(t, l, NoError) /\ UNCHANGED others
  \/ \E l \in SearchLimits : GetRequestHistory(l, 0, NoError) /\ UNCHANGED others

SpecSearch == Init /\ [][NextSearch]_vars

\* ------------------------------------------------ ImportHistory, step by step
ImportEntries == {HistoryEntry(<<"a">>, <<"G", "E", "T">>, 1, <<"2", "0", "0">>, NULL),
                  HistoryEntry(<<"b">>, <<"G", "E", "T">>, 2, <<"E", "r", "r", "o", "r">>, 1)}
ImportElems == {Nil} \cup {Ptr(e) : e \in ImportEntries}
ImportRows == UNION {[1..n -> ImportElems] : n \in 0..MaxFileLen}
\* A file whose JSON does not parse, and every array of up to MaxFileLen elements.
ImportFiles == {[wellFormed |-> FALSE, rows |-> << >>]}
               \cup {[wellFormed |-> TRUE, rows |-> r] : r \in ImportRows}

NextImport ==
  \/ /\ ~TxOpen
     /\ SaveRequestHistory(HistoryEntry(<<"a">>, <<"G", "E", "T">>, 0, <<"2", "0", "0">>, NULL),
                           NoError)
     /\ UNCHANGED others
  \/ \E id \in Ids : ~TxOpen /\ DeleteRequestHistory(id, NoError) /\ UNCHANGED others
  \/ \E f \in ImportFiles, e1, e2 \in IOs : ImportBegin(f, e1, e2) /\ UNCHANGED <<concVars, exportVars, handleVars, uiVars>>
  \/ \E io \in IOs : ImportInsert(io) /\ UNCHANGED <<concVars, exportVars, handleVars, uiVars>>
  \/ \E io \in IOs : ImportCommit(io) /\ UNCHANGED <<concVars, exportVars, handleVars, uiVars>>

SpecImport == Init /\ [][NextImport]_vars

\* ------------------------------------- every writer of the three id columns
\* A file of one entry, of the first collection.
IdFiles == {[wellFormed |-> TRUE,
             rows |-> <<Ptr(HistoryEntry(DalUrl, DalMethod, 0, DalStatus, 1))>>]}

\* Saves, creates, deletes and the clearing of the history, with an import
\* that commits or rolls back in between.  Every statement other than the
\* import's own waits while the transaction holds the connection.
NextIds ==
  \/ \E k \in DalKeys, v \in DalValues : ~TxOpen /\ SetPreference(k, v, NoError) /\ UNCHANGED others
  \/ \E c \in ExistingCollRefs, io \in IOs :
       /\ ~TxOpen
       /\ SaveRequestHistory(HistoryEntry(DalUrl, DalMethod, 0, DalStatus, c), io)
       /\ UNCHANGED others
  \/ \E id \in Ids : ~TxOpen /\ DeleteRequestHistory(id, NoError) /\ UNCHANGED others
  \/ ~TxOpen /\ ClearRequestHistory(NoError) /\ UNCHANGED others
  \/ \E n \in DalNames : ~TxOpen /\ CreateCollection(n, Empty, NoError) /\ UNCHANGED others
  \/ \E id \in Ids : ~TxOpen /\ DeleteCollection(id, NoError) /\ UNCHANGED others
  \/ \E n \in DalNames :
       ~TxOpen /\ SaveRequest(SavedEntry(n, DalUrl, DalMethod, NULL), NoError) /\ UNCHANGED others
  \/ \E id \in Ids : ~TxOpen /\ DeleteSavedRequest(id, NoError) /\ UNCHANGED others
  \/ \E f \in IdFiles :
       ImportBegin(f, NoError, NoError) /\ UNCHANGED <<concVars, exportVars, handleVars, uiVars>>
  \/ \E io \in IOs : ImportInsert(io) /\ UNCHANGED <<concVars, exportVars, handleVars, uiVars>>
  \/ \E io \in IOs : ImportCommit(io) /\ UNCHANGED <<concVars, exportVars, handleVars, uiVars>>

SpecIds == Init /\ [][NextIds]_vars

\* ------------------------------------------------------- substring matching
\* term occurs in text as a literal, case-sensitive substring.
Contains(text, term) ==
  \E i \in 0..(Len(text) - Len(term)) : SubSeq(text, i + 1, i + Len(term)) = term

\* term occurs in text when ASCII letter case is ignored.
ContainsNoCase(text, term) == Contains(FoldText(text), FoldText(term))

WildcardFree(term) == \A i \in 1..Len(term) : term[i] \notin {"%", "_"}

\* =================================================================== claims

\* C1: after DeleteCollection(c) succeeds for a collection that existed, no row
\* of request_history or saved_requests still holds c (history rows were set
\* to NULL, saved requests were deleted) and GetSavedRequests(c) is empty.
C1_DeleteCollectionLeavesNoReference ==
  (ret.op = "DeleteCollection" /\ ret.err = NoError /\ ret.arg <= seq["collections"]) =>
    /\ \A r \in request_history : r.collection_id # ret.arg
    /\ \A r \in saved_requests : r.collection_id # ret.arg
    /\ SavedRowsOf(ret.arg) = << >>

\* C10: the only call that reports "not found" is GetSavedRequest of an id
\* without a row; GetPreference of an unknown key returns nil, nil; a list or
\* search that matches nothing returns an empty list and a nil error; a
\* delete of an unknown id returns nil and changes no table.
C10_StateNotFoundOnlyForGetSavedRequest ==
  /\ ret.op # "GetSavedRequest" => ret.err \in {NoError, ErrIO}
  /\ (ret.op = "GetSavedRequest" /\ ret.err # ErrIO) =>
       (ret.err = ErrNotFound <=> \A r \in saved_requests : r.id # ret.arg)
  /\ (ret.op = "GetPreference" /\ ret.err # ErrIO
        /\ \A p \in preferences : p.key # ret.arg) =>
       (ret.res = Nil /\ ret.err = NoError)
  /\ (ret.op = "GetRequestHistory" /\ ret.err # ErrIO /\ request_history = {}) =>
       ret.res = << >>
  /\ (ret.op = "SearchRequestHistory" /\ ret.err # ErrIO /\ WildcardFree(ret.arg[1])
        /\ \A r \in request_history :
             /\ ~ContainsNoCase(r.url, ret.arg[1])
             /\ ~ContainsNoCase(r.method, ret.arg[1])
             /\ ~ContainsNoCase(r.response_status, ret.arg[1])) =>
       ret.res = << >>
  /\ (ret.op = "GetCollections" /\ ret.err # ErrIO /\ collections = {}) =>
       ret.res = << >>
  /\ (ret.op = "GetSavedRequests" /\ ret.err # ErrIO
        /\ \A r \in saved_requests : r.collection_id # ret.arg) =>
       ret.res = << >>

C10_DeleteOfUnknownIdChangesNothing ==
  /\ (ret'.op = "DeleteRequestHistory" /\ ret'.err # ErrIO
        /\ \A r \in request_history : r.id # ret'.arg) =>
       (ret'.err = NoError /\ UNCHANGED storeVars)
  /\ (ret'.op = "DeleteSavedRequest" /\ ret'.err # ErrIO
        /\ \A r \in saved_requests : r.id # ret'.arg) =>
       (ret'.err = NoError /\ UNCHANGED storeVars)
  /\ (ret'.op = "DeleteCollection" /\ ret'.err # ErrIO
        /\ \A c \in collections : c.id # ret'.arg) =>
       (ret'.err = NoError /\ UNCHANGED storeVars)

C10_NotFoundOnlyForGetSavedRequest ==
  []C10_StateNotFoundOnlyForGetSavedRequest /\ [][C10_DeleteOfUnknownIdChangesNothing]_vars

\* A GetSavedRequest that found no row in a store that holds other saved
\* requests, after a delete of an unknown id would be a second case; this is
\* the first.
C10_Witness ==
  ret.op = "GetSavedRequest" /\ ret.err = ErrNotFound /\ saved_requests # {}

\* C5: SetPreference(k, v) followed by GetPreference(k) returns v with a
\* timestamp not earlier than the one k had before; there is at most one row
\* per key; GetAllPreferences maps every key to the value last set for it.
C5_OneRowPerKey ==
  /\ \A p, q \in preferences : p.key = q.key => p = q
  /\ (ret.op = "GetAllPreferences" /\ ret.err = NoError) =>
       /\ DOMAIN ret.res = {p.key : p \in preferences}
       /\ \A p \in preferences : ret.res[p.key] = p.value

\* A step of SetPreference: the only one that returns as SetPreference and
\* leaves the clock alone.
C5_IsSetStep == ret'.op = "SetPreference" /\ now' = now

C5_SetStep ==
  LET k == ret'.arg[1]
      v == ret'.arg[2]
  IN  IF C5_IsSetStep /\ ret'.err = NoError
      THEN /\ \E q \in preferences' :
                /\ q.key = k /\ q.value = v
                /\ \A p \in preferences : p.key = k => q.updated_at >= p.updated_at
           /\ {p \in preferences' : p.key # k} = {p \in preferences : p.key # k}
      ELSE preferences' = preferences

C5_GetAfterSet ==
  (/\ ret.op = "SetPreference" /\ ret.err = NoError
   /\ ret'.op = "GetPreference" /\ ret'.err = NoError /\ ret'.arg = ret.arg[1]) =>
    /\ Len(ret'.res) = 1
    /\ ret'.res[1].key = ret.arg[1]
    /\ ret'.res[1].value = ret.arg[2]
    /\ ret'.res[1] \in preferences

C5_SetThenGet ==
  []C5_OneRowPerKey /\ [][C5_SetStep /\ C5_GetAfterSet]_vars

\* GetPreference returned a row that was overwritten after the clock moved,
\* in a store that holds both keys.
C5_Witness ==
  /\ ret.op = "GetPreference" /\ ret.err = NoError
  /\ Len(ret.res) = 1 /\ ret.res[1].updated_at > 0 /\ ret.res[1].value = "v2"
  /\ Cardinality(preferences) = 2

\* The pieces of a search term between its % characters.
RECURSIVE Segments(_)
Segments(term) ==
  IF \A i \in 1..Len(term) : term[i] # "%" THEN <<term>>
  ELSE LET i == CHOOSE k \in 1..Len(term) :
                  term[k] = "%" /\ \A j \in 1..(k - 1) : term[j] # "%"
       IN  <<SubSeq(term, 1, i - 1)>> \o Segments(SubSeq(term, i + 1, Len(term)))

\* The piece occurs in text at position i, _ standing for any one character
\* and letters compared without case.
SegmentAt(seg, text, i) ==
  /\ i + Len(seg) - 1 <= Len(text)
  /\ \A j \in 1..Len(seg) : seg[j] = "_" \/ Fold(seg[j]) = Fold(text[i + j - 1])

RECURSIVE SegmentsFrom(_, _, _)
\* The pieces occur in text from position start on, in order, without overlap.
SegmentsFrom(segs, text, start) ==
  \/ segs = << >>
  \/ /\ segs # << >>
     /\ \E i \in start..(Len(text) + 1) :
          /\ SegmentAt(Head(segs), text, i)
          /\ SegmentsFrom(Tail(segs), text, i + Len(Head(segs)))

TermMatches(text, term) == SegmentsFrom(Segments(term), text, 1)

MinOf(a, b) == IF a < b THEN a ELSE b

\* What a search result must be, given the set of rows that match.
IsNewestOf(res, matching, limit) ==
  /\ Range(res) \subseteq matching
  /\ Len(res) = MinOf(limit, Cardinality(matching))
  /\ \A i, j \in 1..Len(res) :
       i < j => res[i] # res[j] /\ res[i].timestamp >= res[j].timestamp
  /\ \A r \in matching \ Range(res) : \A i \in 1..Len(res) :
       r.timestamp <= res[i].timestamp

\* C4 as stated: SearchRequestHistory(term, limit) returns exactly the rows (up
\* to limit, newest first) whose URL, method or status contains term as a
\* case-sensitive literal substring; the empty term gives GetRequestHistory(limit, 0).
C4_SearchIsLiteralSubstring ==
  (ret.op = "SearchRequestHistory" /\ ret.err = NoError) =>
    LET term == ret.arg[1]
        limit == ret.arg[2]
    IN  /\ IsNewestOf(ret.res,
                      {r \in request_history :
                         \/ Contains(r.url, term)
                         \/ Contains(r.method, term)
                         \/ Contains(r.response_status, term)},
                      limit)
        /\ term = Empty => ret.res = HistoryPage(limit, 0)

\* C4 amended: the rows returned (up to limit, newest first) are exactly those
\* whose URL, method or status matches term with ASCII letter case ignored,
\* every _ of term standing for any one character and every % for any run of
\* characters; for a term without _ and % that is containment ignoring case;
\* every row that contains term literally is among them; the empty term
\* gives GetRequestHistory(limit, 0).
C4_SearchIsLikeMatch ==
  (ret.op = "SearchRequestHistory" /\ ret.err = NoError) =>
    LET term == ret.arg[1]
        limit == ret.arg[2]
        matching == {r \in request_history :
                       \/ TermMatches(r.url, term)
                       \/ TermMatches(r.method, term)
                       \/ TermMatches(r.response_status, term)}
        nocase == {r \in request_history :
                       \/ ContainsNoCase(r.url, term)
                       \/ ContainsNoCase(r.method, term)
                       \/ ContainsNoCase(r.response_status, term)}
        literal == {r \in request_history :
                       \/ Contains(r.url, term)
                       \/ Contains(r.method, term)
                       \/ Contains(r.response_status, term)}
    IN  /\ IsNewestOf(ret.res, matching, limit)
        /\ WildcardFree(term) => matching = nocase
        /\ literal \subseteq matching
        /\ term = Empty => ret.res = HistoryPage(limit, 0)

\* A search for "ab" that returned a row whose URL is "aB", one of two rows.
C4_Witness ==
  /\ ret.op = "SearchRequestHistory" /\ ret.err = NoError
  /\ ret.arg[1] = <<"a", "b">>
  /\ Cardinality(request_history) = 2
  /\ \E i \in 1..Len(ret.res) : ret.res[i].url = <<"a", "B">>

\* ------------------------------------------------- the DAL, concurrently
ConcFiles == {[wellFormed |-> TRUE, rows |-> r] : r \in
                {<<Ptr(HistoryEntry(<<"b">>, <<"G", "E", "T">>, 1, <<"2", "0", "0">>, NULL))>>,
                 <<Ptr(HistoryEntry(<<"b">>, <<"G", "E", "T">>, 1, <<"2", "0", "0">>, NULL)),
                   Nil>>}}

NextConc ==
  \/ \E p \in Procs, op \in WriteOps \cup {"ImportHistory"} : ConcLock(p, op) /\ UNCHANGED <<exportVars, handleVars, uiVars>>
  \/ \E p \in Procs : ConcLocked(p) /\ UNCHANGED <<exportVars, handleVars, uiVars>>
  \/ \E p \in Procs : ConcConn(p) /\ UNCHANGED <<exportVars, handleVars, uiVars>>
  \/ \E p \in Procs : ConcExec(p) /\ UNCHANGED <<exportVars, handleVars, uiVars>>
  \/ \E p \in Procs, f \in ConcFiles, io \in IOs : ConcBegin(p, f, io) /\ UNCHANGED <<exportVars, handleVars, uiVars>>
  \/ \E p \in Procs : ConcUnlock(p) /\ UNCHANGED <<exportVars, handleVars, uiVars>>
  \/ \E p \in Procs, io \in IOs : ConcTx(p, io) /\ UNCHANGED <<exportVars, handleVars, uiVars>>
  \/ \E p \in Procs, op \in QueryOps \cup QueryRowOps : ConcRLock(p, op) /\ UNCHANGED <<exportVars, handleVars, uiVars>>
  \/ \E p \in Procs : ConcQuery(p) /\ UNCHANGED <<exportVars, handleVars, uiVars>>
  \/ \E p \in Procs : ConcRUnlock(p) /\ UNCHANGED <<exportVars, handleVars, uiVars>>
  \/ \E p \in Procs : ConcNext(p) /\ UNCHANGED <<exportVars, handleVars, uiVars>>
  \/ \E p \in Procs : ConcClose(p) /\ UNCHANGED <<exportVars, handleVars, uiVars>>

SpecConc == Init /\ [][NextConc]_vars

\* ------------------------------------- the DAL, concurrently, to the end
LiveFiles == {[wellFormed |-> TRUE,
               rows |-> <<Ptr(HistoryEntry(<<"b">>, <<"G", "E", "T">>, 1, <<"2", "0", "0">>, NULL))>>]}

\* A goroutine calls the DAL: a list, an Exec write or an import.  (An import
\* is started while ids are left for its row.)
LiveCall(p) ==
  \/ ConcLock(p, "SetPreference") /\ UNCHANGED <<exportVars, handleVars, uiVars>>
  \/ /\ seq["request_history"] < MaxId
     /\ ConcLock(p, "ImportHistory")
     /\ UNCHANGED <<exportVars, handleVars, uiVars>>
  \/ ConcRLock(p, "GetRequestHistory") /\ UNCHANGED <<exportVars, handleVars, uiVars>>
  \/ ConcRPark(p, "GetRequestHistory") /\ UNCHANGED <<exportVars, handleVars, uiVars>>

\* The steps of a call under way: what the mutex, the pool and the store do.
LiveStep(p) ==
  \/ ConcLocked(p) /\ UNCHANGED <<exportVars, handleVars, uiVars>>
  \/ ConcConn(p) /\ UNCHANGED <<exportVars, handleVars, uiVars>>
  \/ ConcExec(p) /\ UNCHANGED <<exportVars, handleVars, uiVars>>
  \/ \E f \in LiveFiles, io \in IOs : ConcBegin(p, f, io) /\ UNCHANGED <<exportVars, handleVars, uiVars>>
  \/ ConcUnlock(p) /\ UNCHANGED <<exportVars, handleVars, uiVars>>
  \/ \E io \in IOs : ConcTx(p, io) /\ UNCHANGED <<exportVars, handleVars, uiVars>>
  \/ ConcQuery(p) /\ UNCHANGED <<exportVars, handleVars, uiVars>>
  \/ ConcRUnlock(p) /\ UNCHANGED <<exportVars, handleVars, uiVars>>
  \/ ConcNext(p) /\ UNCHANGED <<exportVars, handleVars, uiVars>>
  \/ ConcClose(p) /\ UNCHANGED <<exportVars, handleVars, uiVars>>

NextLive ==
  \/ \E p \in Procs : LiveCall(p)
  \/ \E p \in Procs : LiveStep(p)

SpecLive == Init /\ [][NextLive]_vars

\* sync.RWMutex and the pool of database/sql serve whoever waits: a goroutine
\* that can go on again and again does go on.  Nothing makes a goroutine call.
SpecLiveFair == SpecLive /\ \A p \in Procs : SF_vars(LiveStep(p))

\* ------------------------------------------------- export, then import
\* Rows a store may hold beyond ExportLimit.
MaxOver == 1

ExportEntries ==
  {[HistoryEntry(<<"a">>, <<"G", "E", "T">>, 1, <<"2", "0", "0">>, NULL)
      EXCEPT !.response_body = <<"<", "a", "\"">>, !.response_size = 3],
   [HistoryEntry(<<"b">>, <<"P", "U", "T">>, 2, <<"E", "r", "r", "o", "r">>, 1)
      EXCEPT !.is_favorite = TRUE, !.headers = <<"{", "}">>],
   [HistoryEntry(<<"c">>, <<"G", "E", "T">>, 3, <<"2", "0", "0">>, NULL)
      EXCEPT !.response_body = <<InvalidByte>>, !.response_time_ms = 7, !.response_size = 1]}

ExportCounts == {0, 1, ExportLimit - 1, ExportLimit, ExportLimit + MaxOver}

\* The stores to export: each entry in any of those numbers of rows.
ExportStores ==
  /\ source \in [ExportEntries -> ExportCounts]
  /\ jsonFile = [kind |-> "none", runs |-> << >>]
  /\ target = NoRows
  /\ xpc = "start"

NextExport ==
  \/ \E io \in IOs : ExportHistory(io) /\ UNCHANGED <<dalVars, imp, concVars, handleVars, uiVars>>
  \/ \E io \in IOs : ImportHistory(io) /\ UNCHANGED <<dalVars, imp, concVars, handleVars, uiVars>>

InitExportStores == InitStore /\ InitImport /\ InitConc /\ ExportStores /\ InitUI /\ Opened

SpecExport == InitExportStores /\ [][NextExport]_vars

\* ------------------------------------------- requests and the history panel
UiUrls == {Empty, <<"a">>}
UiMethods == {<<"G", "E", "T">>}
UiTerms == {<<"2">>}
Networks ==
  {[kind |-> "context deadline exceeded", status |-> Empty, body |-> Empty,
    headers |-> << >>, elapsed |-> 0],
   [kind |-> "http", status |-> <<"2", "0", "0">>, body |-> <<"o", "k">>,
    headers |-> <<[Key |-> "Content-Type", Value |-> "text/plain"],
                  [Key |-> "Server", Value |-> "x"]>>,
    elapsed |-> 3 * NsPerMs - 1]}

\* The steps of the goroutine of request r.
GorStep(r) ==
  \/ \E net \in Networks : GorExecute(r, net) /\ UNCHANGED <<imp, concVars, exportVars, handleVars>>
  \/ \E io \in IOs : GorSave(r, io) /\ UNCHANGED <<imp, concVars, exportVars, handleVars>>
  \/ GorRead(r) /\ UNCHANGED <<imp, concVars, exportVars, handleVars>>
  \/ \E part \in HeaderParts : GorWrite(r, part) /\ UNCHANGED <<imp, concVars, exportVars, handleVars>>
  \/ GorLimit(r) /\ UNCHANGED <<imp, concVars, exportVars, handleVars>>

NextUI ==
  \/ \E u \in UiUrls, m \in UiMethods :
       SubmitRequest(u, m) /\ UNCHANGED <<imp, concVars, exportVars, handleVars>>
  \/ \E r \in Requests : GorStep(r)
  \/ UILoad(NoError) /\ UNCHANGED <<imp, concVars, exportVars, handleVars>>
  \/ \E t \in UiTerms : UISearch(t, NoError) /\ UNCHANGED <<imp, concVars, exportVars, handleVars>>
  \/ UIClear(NoError) /\ UNCHANGED <<imp, concVars, exportVars, handleVars>>
  \/ \E part \in HeaderParts : UIAssign(part) /\ UNCHANGED <<imp, concVars, exportVars, handleVars>>

SpecUI == Init /\ [][NextUI]_vars

\* The scheduler lets every goroutine take its next step.
SpecUIFair == SpecUI /\ \A r \in Requests : WF_vars(GorStep(r))

\* ------------------------------------------- saved requests and their lists
SavedNames == {<<"a">>, <<"a", "b">>, <<"B">>, <<"b">>}

NextSaved ==
  \/ CreateCollection(<<"c">>, Empty, NoError) /\ UNCHANGED others
  \/ \E id \in Ids : DeleteCollection(id, NoError) /\ UNCHANGED others
  \/ \E n \in SavedNames, c \in ExistingCollRefs :
       SaveRequest(SavedEntry(n, DalUrl, DalMethod, c), NoError) /\ UNCHANGED others
  \/ \E id \in Ids : DeleteSavedRequest(id, NoError) /\ UNCHANGED others
  \/ \E c \in CollRefs, io \in IOs : GetSavedRequests(c, io) /\ UNCHANGED others

SpecSaved == Init /\ [][NextSaved]_vars

\* ------------------------------------------------ executeRequest on its own
\* Redirects in front of the last answer of a chain.
MaxChain == 11

TransportFailures == {"no such host", "connection refused", "context deadline exceeded"}
FinalStatuses == {<<"2", "0", "0">>, <<"3", "0", "4">>, <<"4", "0", "4">>, <<"5", "0", "0">>}
ChainRedirects == {<<"3", "0", "2">>, <<"3", "0", "7">>}
ExecUrls == {<<"a">>, <<":">>}

Hop(kind, status, location, readErr) ==
  [kind |-> kind, status |-> status, location |-> location, readErr |-> readErr,
   body |-> IF kind = "http" THEN status ELSE Empty, headers |-> << >>, elapsed |-> NsPerMs]

\* The last hop of a chain: a failure, or an answer that is no redirect, whose
\* body can or cannot be read to its end.
FinalHops ==
  {Hop(k, Empty, FALSE, FALSE) : k \in TransportFailures}
  \cup {Hop("http", st, FALSE, e) : st \in FinalStatuses, e \in BOOLEAN}

\* n redirects, each with a Location, and then a last hop.
Chains ==
  {[i \in 1..(n + 1) |-> IF i <= n THEN Hop("http", st, TRUE, FALSE) ELSE f]
     : n \in 0..MaxChain, st \in ChainRedirects, f \in FinalHops}

InitExec ==
  /\ preferences = {}
  /\ collections = {}
  /\ request_history = {}
  /\ saved_requests = {}
  /\ seq = [t \in {"collections", "request_history", "saved_requests"} |-> 0]
  /\ now = 0
  /\ ret \in {[op |-> "submitRequest", arg |-> [method |-> m, url |-> u, hops |-> h],
               res |-> Nil, err |-> NoError]
                : m \in UiMethods, u \in ExecUrls, h \in Chains}
  /\ InitImport /\ InitConc /\ InitExport /\ InitUI /\ Opened

\* response, err := executeRequest(method, url)
CallExecuteRequest ==
  /\ ret.op = "submitRequest"
  /\ LET a == ret.arg
         net == Outcome(a.method, a.url, a.hops)
         res == executeRequest(a.method, a.url, net)
     IN  ret' = [op |-> "executeRequest", arg |-> a,
                 res |-> [response |-> res.response, sent |-> net.sent],
                 err |-> res.err]
  /\ UNCHANGED <<preferences, collections, request_history, saved_requests, seq, now>>
  /\ UNCHANGED others

NextExec == CallExecuteRequest

SpecExec == InitExec /\ [][NextExec]_vars

\* ------------------------------------------------------- GetDB, concurrently
InitProcess == InitStore /\ InitImport /\ InitConc /\ InitExport /\ InitUI /\ NotOpened

NextGetDB ==
  \/ \E p \in Procs : GetDBCall(p) /\ UNCHANGED <<dalVars, imp, concVars, exportVars, uiVars>>
  \/ \E p \in Procs : OnceSkip(p) /\ UNCHANGED <<dalVars, imp, concVars, exportVars, uiVars>>
  \/ \E p \in Procs : OnceEnter(p) /\ UNCHANGED <<dalVars, imp, concVars, exportVars, uiVars>>
  \/ \E p \in Procs, io \in {NoError, ErrInit} :
       InitDBStep(p, io) /\ UNCHANGED <<dalVars, imp, concVars, exportVars, uiVars>>
  \/ \E p \in Procs : GetDBReturn(p) /\ UNCHANGED <<dalVars, imp, concVars, exportVars, uiVars>>

SpecGetDB == InitProcess /\ [][NextGetDB]_vars

\* ---------------------------------------------------------------------- C2
\* The step on which an ImportHistory call ends.
ImportExits == imp' # imp /\ imp'.pc = "done"

\* The rows the file holds, as the table has them after a complete import.
ImportedRows ==
  {HistoryRow(imp.undo.seq + i, imp.file[i][1]) : i \in 1..Len(imp.file)}

ImportOutcomeNil ==
  /\ imp.exit = "return"
  /\ imp.stmtErr = NoError
  /\ \A i \in 1..Len(imp.file) : imp.file[i] # Nil
  /\ request_history = imp.undo.request_history \cup ImportedRows

ImportOutcomeError ==
  /\ imp.exit = "return"
  /\ imp.stmtErr # NoError
  /\ request_history = imp.undo.request_history

\* C2: whatever the file, a call of ImportHistory ends either returning nil
\* with every row of the file inserted, or returning the error that stopped it
\* with request_history exactly as it was before the call.
C2_ImportAllOrNothing ==
  [][ImportExits => (ImportOutcomeNil' \/ ImportOutcomeError')]_vars

\* ---------------------------------------------------------------------- C3
\* p's next step executes a write on the connection: the statement of db.Exec,
\* the BEGIN of db.Begin, an INSERT of the import or its COMMIT/ROLLBACK.
Writing(p) ==
  \/ At(p, "stmt") /\ running[p].op \in WriteOps \cup {"ImportHistory"}
  \/ At(p, "tx")

\* p's next step reads from the connection: the SELECT of db.Query/QueryRow,
\* or rows.Next()/Scan on the open result.
Reading(p) ==
  \/ At(p, "stmt") /\ running[p].op \in QueryOps \cup QueryRowOps
  \/ At(p, "rows")

NoOverlap == \A p, q \in Procs : (Writing(p) /\ (Writing(q) \/ Reading(q))) => p = q

\* C3: every write statement, the import's inserts and commit included, runs
\* with the lock held exclusively, and every read, the iteration of the rows
\* included, with the lock held shared; so no write overlaps another access.
C3_EveryAccessUnderTheLock ==
  /\ \A p \in Procs : Writing(p) => mu.writer = {p}
  /\ \A p \in Procs : Reading(p) => p \in mu.readers
  /\ NoOverlap

\* C3, as the code has it: the lock is held while db.Exec, db.Query,
\* db.QueryRow and db.Begin issue their statement; the rows are iterated and
\* the import's inserts and commit run after it was released; what keeps a
\* write from overlapping another access is the pool's single connection,
\* held until the rows are closed or the transaction ends.
C3_SerializedByTheConnection ==
  /\ \A p \in Procs : At(p, "stmt") =>
        IF running[p].op \in QueryOps \cup QueryRowOps
        THEN p \in mu.readers ELSE mu.writer = {p}
  /\ \A p \in Procs : (Writing(p) \/ Reading(p)) => inUse = {p}
  /\ Cardinality(mu.writer) <= 1
  /\ mu.writer # {} => mu.readers = {}
  /\ NoOverlap
  /\ \A p \in Procs : (At(p, "rows") /\ running[p].op = "GetRequestHistory") =>
        running[p].res \o running[p].cursor = HistoryPage(100, 0)

\* The import has inserted a row and is about to insert the next without the
\* lock, which another goroutine holds exclusively while it waits for the
\* connection.
C3_Witness ==
  \E p, q \in Procs :
    /\ At(p, "tx") /\ imp.i = 2 /\ Len(imp.file) = 2
    /\ At(q, "conn") /\ mu.writer = {q}
    /\ inUse = {p}

\* ---------------------------------------------------------------------- C6
RECURSIVE SourceRows(_)
SourceRows(S) ==
  IF S = {} THEN 0
  ELSE LET e == CHOOSE x \in S : TRUE IN source[e] + SourceRows(S \ {e})

\* The exporting store's rows: the entries it holds at least once.
SourceTable == [e \in {x \in DOMAIN source : source[x] > 0} |-> source[e]]

\* How many rows of entry e are among the ExportLimit newest.
Kept(e) ==
  LET newer == SourceRows({x \in DOMAIN source : x.timestamp > e.timestamp})
      room == IF newer >= ExportLimit THEN 0 ELSE ExportLimit - newer
  IN  IF source[e] < room THEN source[e] ELSE room

ValidUTF8(e) == \A f \in TextFields : \A i \in 1..Len(e[f]) : e[f][i] # InvalidByte

\* e with every invalid byte of its text fields replaced by U+FFFD.
Coerced(e) ==
  [f \in DOMAIN e |->
     IF f \in TextFields
     THEN [i \in 1..Len(e[f]) |-> IF e[f][i] = InvalidByte THEN ReplacementChar ELSE e[f][i]]
     ELSE e[f]]

\* C6: after ExportHistory and ImportHistory of the file into an empty store,
\* that store holds the rows of the exporting store, equal in every field but
\* the id, however many rows there are.
C6_ExportImportReproducesAllRows ==
  xpc = "imported" => target = SourceTable

\* C6, as the code has it: the importing store holds the ExportLimit newest
\* rows of the exporting store, each with the invalid UTF-8 bytes of its text
\* fields replaced by U+FFFD; so all rows, equal in every field but the id,
\* when there are at most ExportLimit of them and their texts are valid UTF-8.
C6_ExportImportReproducesNewestRows ==
  xpc = "imported" =>
    /\ DOMAIN target = {Coerced(e) : e \in {x \in DOMAIN source : Kept(x) > 0}}
    /\ \A e \in DOMAIN source : Kept(e) > 0 => target[Coerced(e)] = Kept(e)
    /\ (SourceRows(DOMAIN source) <= ExportLimit /\ \A e \in DOMAIN SourceTable : ValidUTF8(e))
         => target = SourceTable

\* Exactly ExportLimit rows of two different entries, with a collection
\* reference, escaped characters and omitted members, came through unchanged.
C6_Witness ==
  /\ xpc = "imported"
  /\ SourceRows(DOMAIN source) = ExportLimit
  /\ Cardinality(DOMAIN target) = 2
  /\ \E e \in DOMAIN target : e.collection_id # NULL
  /\ target = SourceTable

\* ---------------------------------------------------------------------- C7
Finished(r) == gor[r].pc = "done"
Saved(r) == gor[r].id # 0
RowOf(r) == HistoryRow(gor[r].id, gor[r].entry)

SaveSucceeds(r) == gor[r].pc = "save" /\ gor'[r].pc = "read"
\* The step with which AddToHistory stores the data word of the new list.
StoresList(r) ==
  gor[r].pc = "write" /\ "data" \notin gor[r].written /\ "data" \in gor'[r].written

HeadersOf(text) ==
  [k \in 1..((Len(text) - 1) \div 14) |->
     [Key |-> text[14 * (k - 1) + 6], Value |-> text[14 * (k - 1) + 12]]]

\* C8: the entry built for an executed request has the submitted method and
\* URL; after a successful execution the response's status, body, headers
\* (serialized), time in ms and size; after a failed one the status "Error"
\* and empty/zero response fields.  The stored row has the same fields.
C8_EntryMatchesOutcome ==
  \A r \in Requests : gor[r].pc \notin {"none", "exec"} =>
    LET e == gor[r].entry
        res == gor[r].res
    IN  /\ e.url = gor[r].url
        /\ e.method = gor[r].method
        /\ IF res.err = NoError
           THEN LET response == res.response[1]
                IN  /\ e.response_status = response.Status
                    /\ e.response_body = response.Body
                    /\ HeadersOf(e.response_headers) = response.Headers
                    /\ e.response_time_ms * NsPerMs <= response.ResponseTime
                    /\ response.ResponseTime < (e.response_time_ms + 1) * NsPerMs
                    /\ e.response_size = response.Size
           ELSE /\ e.response_status = StatusError
                /\ e.response_body = Empty
                /\ e.response_headers = Empty
                /\ e.response_time_ms = 0
                /\ e.response_size = 0
        /\ \A row \in request_history : row.id = gor[r].id => EntryOf(row) = e

\* One request was answered and its row is stored, another failed in transport.
C8_Witness ==
  \E r, q \in Requests :
    /\ Finished(r) /\ gor[r].res.err = NoError /\ RowOf(r) \in request_history
    /\ Len(gor[r].res.response[1].Headers) = 2
    /\ gor[r].entry.response_time_ms = 2
    /\ gor[q].pc = "save" /\ gor[q].res.err # NoError

\* ---------------------------------------------------------------------- C9
\* The step with which request r's SaveRequestHistory fails.
SaveFails(r) == gor[r].pc = "save" /\ gor'[r].pc # "save" /\ gor'[r].id = 0

\* C9: a failing SaveRequestHistory changes nothing the user sees and nothing
\* that is stored: the widgets, the store and the list stay as they are, no
\* dialog is shown, the goroutine ends without a second attempt, and no entry
\* without a stored row gets into the list.
C9_SaveFailureIsSwallowed ==
  /\ [][\A r \in Requests :
          /\ SaveFails(r) =>
               /\ display' = display
               /\ storeVars' = storeVars
               /\ hp' = hp
               /\ ui' = ui
               /\ Finished(r)'
          /\ Finished(r) => gor'[r] = gor[r]]_vars
  /\ [](\A i \in 1..Len(hp.data) : hp.data[i].id # 0)

\* The request was answered, its response is on display, and the save failed.
C9_Witness ==
  \E r \in Requests :
    /\ Finished(r) /\ ~Saved(r)
    /\ gor[r].res.err = NoError
    /\ display = ShowResult(gor[r].res)
    /\ request_history = {} /\ View(hp) = << >>

\* --------------------------------------------------------------------- C11
Tables == {"collections", "request_history", "saved_requests"}

Table(t) ==
  IF t = "collections" THEN collections
  ELSE IF t = "request_history" THEN request_history
  ELSE saved_requests

\* What is committed: while the import's transaction is open, the history
\* table and its sequence as they were at BEGIN.
CommittedRows(t) ==
  IF t = "request_history" /\ TxOpen THEN imp.undo.request_history ELSE Table(t)

\* The largest id a committed statement ever assigned in table t.
CommittedSeq(t) ==
  IF t = "request_history" /\ TxOpen THEN imp.undo.seq ELSE seq[t]

\* A call of op returned nil in this step.
Returned(op) == ret' # ret /\ ret'.op = op /\ ret'.err = NoError

\* The row of the table that carries this id, after the step.
StoredWithId(t, id) == {r \in Table(t)' : r.id = id}

\* C11: in collections, request_history and saved_requests every id is
\* assigned by the store, is strictly greater than every id assigned in that
\* table before (also after deletes and after the history was cleared), is
\* never given to a second row and never changes; the id a save or create
\* hands back is the id of the row it stored.
C11_IdsMonotonicNeverReused ==
  [][\A t \in Tables :
       \* the largest id ever assigned is never forgotten
       /\ CommittedSeq(t)' >= CommittedSeq(t)
       /\ \A r \in CommittedRows(t)' : r.id >= 1 /\ r.id <= CommittedSeq(t)'
       \* at most one row per id
       /\ \A r, q \in Table(t)' : r.id = q.id => r = q
       \* a row with an id assigned before is a row that had it before
       /\ \A r \in CommittedRows(t)' :
            r.id <= CommittedSeq(t) => \E q \in CommittedRows(t) : q.id = r.id
       \* a row added inside the transaction is above everything committed
       /\ \A r \in Table(t)' \ Table(t) : r.id > CommittedSeq(t)
       \* the id written back
       /\ (t = "request_history" /\ Returned("SaveRequestHistory")) =>
            /\ ret'.res > CommittedSeq(t)
            /\ \A q \in Table(t) : q.id < ret'.res
            /\ StoredWithId(t, ret'.res) = {HistoryRow(ret'.res, ret'.arg)}
       /\ (t = "saved_requests" /\ Returned("SaveRequest")) =>
            /\ ret'.res > CommittedSeq(t)
            /\ \A q \in Table(t) : q.id < ret'.res
            /\ StoredWithId(t, ret'.res) = {SavedRow(ret'.res, ret'.arg, now)}
       /\ (t = "collections" /\ Returned("CreateCollection")) =>
            /\ ret'.res[1].id > CommittedSeq(t)
            /\ \A q \in Table(t) : q.id < ret'.res[1].id
            /\ StoredWithId(t, ret'.res[1].id) = {ret'.res[1]}
    ]_vars

\* A save after the row with the largest id was deleted (or the history
\* cleared): the table holds only the new row, and its id is not 1.
C11_Witness ==
  /\ ret.op = "SaveRequestHistory"
  /\ ret.err = NoError
  /\ ret.res = 2
  /\ request_history = {HistoryRow(2, ret.arg)}
  /\ imp.pc = "done"
  /\ imp.stmtErr # NoError

\* --------------------------------------------------------------------- C12
RECURSIVE LeadingRedirects(_)
\* How many answers at the front of the chain point on to a Location.
LeadingRedirects(hops) ==
  IF hops = << >> THEN 0
  ELSE IF Head(hops).kind = "http" /\ Head(hops).status \in RedirectStatuses
          /\ Head(hops).location
       THEN 1 + LeadingRedirects(Tail(hops))
       ELSE 0

Executed == ret.op = "executeRequest"

\* The failures below HTTP: the request cannot be built, the exchange fails
\* or times out, the body breaks off.
TransportLevel(url, hop) ==
  ~ValidURL(url) \/ hop.kind # "http" \/ hop.readErr

\* C12 as stated: executeRequest returns an error and no response exactly
\* when the request fails at transport level; whenever the server answers
\* with an HTTP status, whichever it is, the response carries that status
\* with a nil error; and exactly one request is attempted.
C12_AnyStatusIsReturnedAfterOneAttempt ==
  Executed =>
    LET first == ret.arg.hops[1]
    IN  /\ ret.err # NoError <=> TransportLevel(ret.arg.url, first)
        /\ ret.err # NoError => ret.res.response = Nil
        /\ ret.err = NoError => /\ ret.res.response # Nil
                                /\ ret.res.response[1].Status = first.status
        /\ ret.res.sent <= 1

\* C12, amended: the answer that counts is the last one of the redirect
\* chain the client follows.  executeRequest returns an error and no response
\* exactly when the request cannot be built, a hop of the chain fails at
\* transport level, the body of the last answer cannot be read, or ten
\* requests were sent and the tenth is redirected too; otherwise it returns
\* the status of the last answer (4xx and 5xx included) with a nil error.
\* One request is sent per answer, none twice, and exactly one when the
\* first answer is not a redirect.
C12_LastAnswerOfTheChainIsReturned ==
  Executed =>
    LET hops == ret.arg.hops
        n == LeadingRedirects(hops)
        last == hops[n + 1]
        tooMany == n >= MaxRedirects
    IN  /\ ret.err # NoError <=>
              (~ValidURL(ret.arg.url) \/ tooMany
                 \/ TransportLevel(ret.arg.url, last))
        /\ ret.err # NoError => ret.res.response = Nil
        /\ ret.err = NoError =>
              /\ ret.res.response # Nil
              /\ ret.res.response[1].Status = last.status
              /\ ret.res.response[1].Body = last.body
        /\ ret.res.sent = IF ~ValidURL(ret.arg.url) THEN 0
                          ELSE IF tooMany THEN MaxRedirects ELSE n + 1
        /\ (ret.err = ErrRedirects) <=> (ValidURL(ret.arg.url) /\ tooMany)

\* A server error at the end of a followed redirect is returned as a response.
C12_Witness ==
  /\ Executed
  /\ ret.err = NoError
  /\ ret.res.response[1].Status = <<"5", "0", "0">>
  /\ ret.arg.hops[1].status = <<"3", "0", "2">>
  /\ ret.res.sent = 2

\* --------------------------------------------------------------------- C13
Listed == ret.op = "GetSavedRequests" /\ ret.err = NoError

\* C13: GetSavedRequests(nil) returns exactly the saved requests without a
\* collection, GetSavedRequests(c) exactly those of collection c, each stored
\* row once, and the list is in ascending order of name.
C13_ListIsTheCollectionByName ==
  Listed =>
    /\ Range(ret.res) = {r \in saved_requests : r.collection_id = ret.arg}
    /\ Len(ret.res) = Cardinality(Range(ret.res))
    /\ \A i, j \in 1..Len(ret.res) :
         i < j => ~TextLess(ret.res[j].name, ret.res[i].name)

\* A list of two requests of one collection that were saved in the other
\* order: the later one has the smaller name.
C13_Witness ==
  /\ Listed
  /\ ret.arg # NULL
  /\ Len(ret.res) = 2
  /\ ret.res[1].id > ret.res[2].id
  /\ ret.res[1].name = <<"B">>
  /\ ret.res[2].name = <<"a">>

\* --------------------------------------------------------------------- C14
\* The call that returned in this step took the row with this id away.
RemovesHistory(id) ==
  \/ Returned("DeleteRequestHistory") /\ ret'.arg = id
  \/ Returned("ClearRequestHistory")

HistoryWriters == {"SaveRequestHistory", "ImportHistory",
                   "DeleteRequestHistory", "ClearRequestHistory"}

GotDB(p) == getting[p].pc = "returned"

\* initDB ran at most once, and every call that got a handle got the same one.
OneInitOneHandle ==
  /\ once.runs <= 1
  /\ \A p, q \in Procs :
       (GotDB(p) /\ GotDB(q) /\ getting[p].res.handle # Nil /\ getting[q].res.handle # Nil)
         => getting[p].res.handle = getting[q].res.handle

\* C15: every call of GetDB returns a handle and a nil error, or no handle and
\* an error, never no handle with a nil error; initDB runs at most once; the
\* calls that succeed return the same handle; and once the initialisation
\* failed, every call of GetDB reports an error.
C15_HandleOrError ==
  /\ OneInitOneHandle
  /\ \A p \in Procs : GotDB(p) =>
       \/ getting[p].res.handle # Nil /\ getting[p].res.err = NoError
       \/ getting[p].res.handle = Nil /\ getting[p].res.err # NoError

\* --------------------------------------------------------------------- C16
\* C16: a call of the DAL that a goroutine has started (a list that keeps the
\* connection while it iterates, an Exec write, an import that keeps the
\* connection from Begin to Commit or Rollback) returns, whatever the other
\* goroutines do.
C16_EveryCallReturns ==
  \A p \in Procs : ~At(p, "idle") ~> At(p, "idle")

\* A list iterates its rows on the connection, a writer holds the lock and
\* waits for the connection, a second list is parked behind the writer.
C16_Witness ==
  \E p, q, r \in Procs :
    /\ At(p, "rows") /\ running[p].cursor # << >> /\ inUse = {p}
    /\ At(q, "conn") /\ mu.writer = {q}
    /\ At(r, "rlock")

\* --------------------------------------------------------------------- C17
\* No goroutine is inside AddToHistory and the UI thread is in no method of
\* the panel.
PanelAtRest ==
  /\ ui.pc = "idle"
  /\ \A r \in Requests : gor[r].pc \in {"none", "exec", "done"}

\* C17: between the calls of loadHistory, searchHistory, AddToHistory and
\* clearHistory the list of the panel has at most 100 entries, and while the
\* list shows a search for a non-empty term, every entry matches the term in
\* its URL, method or status, also after AddToHistory has run.
C17_ListMatchesTheSearch ==
  PanelAtRest =>
    /\ Len(View(hp)) <= HistoryLimit
    /\ ui.shown # Empty =>
         \A i \in 1..Len(View(hp)) : SearchWhere(View(hp)[i], SearchPattern(ui.shown))

====
